---- MODULE Spec2Model ----
\* A model of the request infrastructure of cinema_subtitle_translator:
\*   - DeepSeekClient (src/api/deepseek_client.py): the throttled transport
\*     _make_request and the retry loop of chat_completion;
\*   - CacheManager (src/storage/cache_manager.py): the three-tier cache;
\*   - ContextAwareTranslator (src/core/translation_engine.py):
\*     translate_subtitle and translate_batch.
\* SpecRetry, SpecTransport and SpecCache each run one component and leave
\* the variables of the others at their initial values. SpecBatch runs
\* translate_batch over the cache manager and the client: a cache lookup is
\* one step, and a chat_completion call is one step that runs its attempts.
EXTENDS Integers, Sequences, FiniteSets, TLC

VARIABLES
    \* ---- configuration (src/security/config.py) ----
    retry_attempts,            \* config.api.retry_attempts
    max_concurrent_requests,   \* config.api.max_concurrent_requests
    cache_ttl,                 \* config.cache.cache_ttl, in the model's seconds
    \* ---- DeepSeekClient ----
    now,                       \* wall clock, in seconds
    task_logs,                 \* Throttler._task_logs: admission timestamps
    request_count,             \* DeepSeekClient.request_count
    total_tokens,              \* DeepSeekClient.total_tokens
    call,                      \* a chat_completion invocation
    requests,                  \* get_models invocations, concurrent with it
    attempts_ok,               \* _make_request calls that returned data
    attempts_failed,           \* _make_request calls that raised
    \* ---- CacheManager ----
    loop_time,                 \* asyncio.get_event_loop().time(), in seconds
    memory_cache,              \* CacheManager._memory_cache
    memory_cache_ttl,          \* CacheManager._memory_cache_ttl
    redis_available,           \* CacheManager._redis_available (and _redis_client)
    redis_store,               \* the contents of the Redis server
    disk_cache,                \* CacheManager._disk_cache
    stats,                     \* CacheManager.stats
    cache_ops,                 \* number of cache operations performed
    last,                      \* the last cache operation and what it returned
    set_calls,                 \* CacheManager.set calls that run as coroutines
    get_calls,                 \* CacheManager.get calls that run as coroutines
    delete_calls,              \* CacheManager.delete calls that run as coroutines
    clear_calls,               \* CacheManager.clear calls that run as coroutines
    \* ---- ContextAwareTranslator ----
    subtitles,                 \* translate_batch's argument: the texts of the lines
    batch_size,                \* translate_batch's batch_size
    batch_pc,                  \* where translate_batch is
    chunk_i,                   \* translate_batch's loop variable i
    tasks,                     \* the translate_subtitle coroutines of the chunk
    results,                   \* translate_batch's results
    completed,                 \* the lines in the order their coroutines finished
    produced,                  \* per line, how its translate_subtitle call ended
    translation_stats          \* ContextAwareTranslator.translation_stats

clientVars == <<retry_attempts, max_concurrent_requests, now, task_logs,
                request_count, total_tokens, call, requests,
                attempts_ok, attempts_failed>>

cacheVars == <<cache_ttl, loop_time, memory_cache, memory_cache_ttl, redis_available,
               redis_store, disk_cache, stats, cache_ops, last>>

batchVars == <<subtitles, batch_size, batch_pc, chunk_i, tasks, results,
               completed, produced, translation_stats>>

vars == <<clientVars, cacheVars, set_calls, get_calls, delete_calls, clear_calls,
         batchVars>>

\* ------------------------------------------------------------------ bounds
MaxRetryAttempts == 3     \* retry_attempts ranges over 1..MaxRetryAttempts
MaxConcurrent == 2        \* max_concurrent_requests ranges over 1..MaxConcurrent
NumRequests == 2          \* get_models invocations
MaxTransportTime == 3     \* the clock of the concurrent _make_request calls stops here
MaxTime == 14             \* the clock stops here
MaxTokens == 1            \* usage.total_tokens of a response: 0..MaxTokens
MaxBackoffAttempts == 6   \* retry_attempts, where the backoff schedule is followed
MaxLoopTime == 2          \* the cache's clock stops here
MaxCacheOps == 3          \* cache operations in one behaviour
NumSetCalls == 2          \* set calls that may overlap
NumGetCalls == 1          \* get calls that may overlap the set calls
NumDeleteCalls == 1       \* delete calls that may overlap other calls
NumClearCalls == 1        \* clear calls that may overlap other calls
MaxCalls == 3             \* cache calls made in all when every kind may overlap
MaxSubtitles == 3         \* translate_batch is given 0..MaxSubtitles lines
MaxBatchSize == 2         \* batch_size ranges over 1..MaxBatchSize

Min(a, b) == IF a <= b THEN a ELSE b

\* ---------------------------------------------------------------------
\* DeepSeekClient
\* ---------------------------------------------------------------------

\* Throttler(rate_limit=..., period=1.0)
ThrottlerPeriod == 1

\* HTTP statuses the remote service answers with
HttpStatuses == {200, 201, 400, 429, 500, 503}

\* What the transport does with one request: an HTTP response (status and
\* body), aiohttp.ClientError, or asyncio.TimeoutError.
TransportOutcomes ==
    [kind : {"http"}, status : {200}, has_usage : {TRUE}, total_tokens : 0..MaxTokens]
    \cup [kind : {"http"}, status : HttpStatuses, has_usage : {FALSE}, total_tokens : {0}]
    \cup [kind : {"network", "timeout"}, status : {0}, has_usage : {FALSE}, total_tokens : {0}]

\* last_error = None
NoError == [status_code |-> -1, message |-> "None"]

APIError(status_code, message) == [status_code |-> status_code, message |-> message]

\* a flush that keeps every admission
Flush_KeepAll(logs, t) == logs

\* Throttler.flush: drop the admissions older than one period
RECURSIVE Flush(_, _)
Flush(logs, t) ==
    IF logs # <<>> /\ t - Head(logs) > ThrottlerPeriod
    THEN Flush(Tail(logs), t)
    ELSE logs

\* a _make_request that never adds to total_tokens
MakeRequest_NoTokens(o) ==
    IF o.kind = "http"
    THEN IF o.status = 200
         THEN [ret |-> "data", error |-> NoError, counted |-> TRUE, tokens |-> 0]
         ELSE [ret |-> "raise", error |-> APIError(o.status, "error message"),
               counted |-> TRUE, tokens |-> 0]
    ELSE IF o.kind = "network"
    THEN [ret |-> "raise", error |-> APIError(0, "Network error"),
          counted |-> FALSE, tokens |-> 0]
    ELSE [ret |-> "raise", error |-> APIError(0, "Request timeout"),
          counted |-> FALSE, tokens |-> 0]

\* _make_request, from the transport's outcome to what it returns or raises
\* and what it adds to the counters
MakeRequest(o) ==
    IF o.kind = "http"
    THEN IF o.status = 200
         THEN [ret |-> "data", error |-> NoError, counted |-> TRUE,
               tokens |-> IF o.has_usage THEN o.total_tokens ELSE 0]
         ELSE [ret |-> "raise", error |-> APIError(o.status, "error message"),
               counted |-> TRUE, tokens |-> 0]
    ELSE IF o.kind = "network"
    THEN [ret |-> "raise", error |-> APIError(0, "Network error"),
          counted |-> FALSE, tokens |-> 0]
    ELSE [ret |-> "raise", error |-> APIError(0, "Request timeout"),
          counted |-> FALSE, tokens |-> 0]

\* a classification that also retries the other 4xx statuses
IsRetryable_Any4xx(e) == e.status_code >= 400

\* if e.status_code >= 500 or e.status_code == 429
IsRetryable(e) == e.status_code >= 500 \/ e.status_code = 429

\* a loop test that is off by one
AttemptsRemain_Le(retry_count, attempts) == retry_count <= attempts

\* retry_count < self.config.api.retry_attempts
AttemptsRemain(retry_count, attempts) == retry_count < attempts

\* a wait that doubles without a cap
BackoffWait_NoCap(retry_count) == 2 ^ retry_count

\* wait_time = min(2 ** retry_count, 10)
BackoffWait(retry_count) == Min(2 ^ retry_count, 10)

NoResult == [kind |-> "none", error |-> NoError]
Returned == [kind |-> "response", error |-> NoError]
Raised(e) == [kind |-> "raise", error |-> e]

IdleCall == [pc |-> "idle", retry_count |-> 0, last_error |-> NoError,
             wake_at |-> 0, trace |-> <<>>, result |-> NoResult]

IdleRequest == [pc |-> "idle", ret |-> "none"]

\* the head of the while loop of chat_completion, and what follows the loop
\* when it is left
LoopHead(cc) ==
    IF AttemptsRemain(cc.retry_count, retry_attempts)
    THEN [cc EXCEPT !.pc = "acquire"]
    ELSE [cc EXCEPT !.pc = "done",
                    !.result = IF cc.last_error # NoError
                               THEN Raised(cc.last_error)
                               ELSE Raised(APIError(0, "Max retry attempts exceeded"))]

\* an except clause that keeps and raises the first error it saw
OnAPIError_FirstError(cc, e) ==
    LET c1 == [cc EXCEPT !.last_error = IF @ = NoError THEN e ELSE @] IN
    IF IsRetryable(e)
    THEN LET c2 == [c1 EXCEPT !.retry_count = @ + 1] IN
         IF AttemptsRemain(c2.retry_count, retry_attempts)
         THEN [c2 EXCEPT !.pc = "sleep",
                         !.wake_at = now + BackoffWait(c2.retry_count)]
         ELSE [c2 EXCEPT !.pc = "done", !.result = Raised(c1.last_error)]
    ELSE [c1 EXCEPT !.pc = "done", !.result = Raised(c1.last_error)]

\* an except clause that retries at once, without counting the attempt or
\* keeping it in the trace
OnAPIError_NoCount(cc, e) ==
    LET c1 == [cc EXCEPT !.last_error = e] IN
    IF IsRetryable(e)
    THEN [c1 EXCEPT !.pc = "acquire", !.trace = <<>>]
    ELSE [c1 EXCEPT !.pc = "done", !.result = Raised(e)]

\* the except APIError clause of chat_completion
OnAPIError(cc, e) ==
    LET c1 == [cc EXCEPT !.last_error = e] IN
    IF IsRetryable(e)
    THEN LET c2 == [c1 EXCEPT !.retry_count = @ + 1] IN
         IF AttemptsRemain(c2.retry_count, retry_attempts)
         THEN [c2 EXCEPT !.pc = "sleep",
                         !.wake_at = now + BackoffWait(c2.retry_count)]
         ELSE [c2 EXCEPT !.pc = "done", !.result = Raised(e)]
    ELSE [c1 EXCEPT !.pc = "done", !.result = Raised(e)]

\* a try body that does not return the response and goes round the loop again
OnAttempt_NoReturn(cc, r) ==
    IF r.ret = "data"
    THEN LoopHead(cc)
    ELSE OnAPIError(cc, r.error)

\* the try body of chat_completion once _make_request has ended with r
OnAttempt(cc, r) ==
    IF r.ret = "data"
    THEN [cc EXCEPT !.pc = "done", !.result = Returned]
    ELSE OnAPIError(cc, r.error)

\* async with self.throttler: one round of Throttler.acquire. The call is
\* admitted when fewer than rate_limit admissions are left in the last
\* period; otherwise it sleeps retry_interval and tries again.
ThrottlerAcquire(admitted) ==
    LET logs == Flush(task_logs, now) IN
    /\ admitted = (Len(logs) < max_concurrent_requests)
    /\ task_logs' = IF admitted THEN Append(logs, now) ELSE logs

\* the counters _make_request updates while it handles the outcome o, and
\* the record of the attempt
CountAttempt(o) ==
    LET r == MakeRequest(o) IN
    /\ request_count' = IF r.counted THEN request_count + 1 ELSE request_count
    /\ total_tokens' = total_tokens + r.tokens
    /\ attempts_ok' = IF r.ret = "data" THEN attempts_ok + 1 ELSE attempts_ok
    /\ attempts_failed' = IF r.ret = "data" THEN attempts_failed ELSE attempts_failed + 1

ClientInit0 ==
    /\ retry_attempts \in 1..MaxRetryAttempts
    /\ max_concurrent_requests \in 1..MaxConcurrent
    /\ now = 0
    /\ task_logs = <<>>
    /\ request_count = 0
    /\ total_tokens = 0
    /\ attempts_ok = 0
    /\ attempts_failed = 0
    /\ call = IdleCall
    /\ requests = [r \in 1..NumRequests |-> IdleRequest]

\* chat_completion is called: retry_count = 0, last_error = None, loop head
Begin ==
    /\ call.pc = "idle"
    /\ call' = LoopHead(IdleCall)
    /\ UNCHANGED <<cacheVars, set_calls, get_calls, delete_calls, clear_calls, batchVars>>
    /\ UNCHANGED <<retry_attempts, max_concurrent_requests, now, task_logs,
                   request_count, total_tokens, attempts_ok, attempts_failed,
                   requests>>

\* chat_completion has called _make_request, which waits for the throttler
Acquire ==
    /\ call.pc = "acquire"
    /\ \E admitted \in BOOLEAN :
        /\ ThrottlerAcquire(admitted)
        /\ call' = IF admitted THEN [call EXCEPT !.pc = "inflight"] ELSE call
    /\ UNCHANGED <<cacheVars, set_calls, get_calls, delete_calls, clear_calls, batchVars>>
    /\ UNCHANGED <<retry_attempts, max_concurrent_requests, now,
                   request_count, total_tokens, attempts_ok, attempts_failed,
                   requests>>

\* the transport answers (or fails) and _make_request ends; chat_completion
\* handles what it returned or raised
Respond(o) ==
    /\ call.pc = "inflight"
    /\ CountAttempt(o)
    /\ call' = OnAttempt([call EXCEPT !.trace = Append(@, o)], MakeRequest(o))
    /\ UNCHANGED <<cacheVars, set_calls, get_calls, delete_calls, clear_calls, batchVars>>
    /\ UNCHANGED <<retry_attempts, max_concurrent_requests, now, task_logs,
                   requests>>

\* asyncio.sleep(wait_time) is over: continue with the loop head
Wake ==
    /\ call.pc = "sleep"
    /\ now >= call.wake_at
    /\ call' = LoopHead(call)
    /\ UNCHANGED <<cacheVars, set_calls, get_calls, delete_calls, clear_calls, batchVars>>
    /\ UNCHANGED <<retry_attempts, max_concurrent_requests, now, task_logs,
                   request_count, total_tokens, attempts_ok, attempts_failed,
                   requests>>

\* get_models is called and calls _make_request
RequestBegin(r) ==
    /\ requests[r].pc = "idle"
    /\ requests' = [requests EXCEPT ![r].pc = "acquire"]
    /\ UNCHANGED <<cacheVars, set_calls, get_calls, delete_calls, clear_calls, batchVars>>
    /\ UNCHANGED <<retry_attempts, max_concurrent_requests, now, task_logs,
                   request_count, total_tokens, attempts_ok, attempts_failed,
                   call>>

\* the _make_request of get_models waits for the throttler
RequestAcquire(r) ==
    /\ requests[r].pc = "acquire"
    /\ \E admitted \in BOOLEAN :
        /\ ThrottlerAcquire(admitted)
        /\ requests' = IF admitted THEN [requests EXCEPT ![r].pc = "inflight"]
                       ELSE requests
    /\ UNCHANGED <<cacheVars, set_calls, get_calls, delete_calls, clear_calls, batchVars>>
    /\ UNCHANGED <<retry_attempts, max_concurrent_requests, now,
                   request_count, total_tokens, attempts_ok, attempts_failed,
                   call>>

\* the _make_request of get_models ends: get_models returns the data or lets
\* the APIError through
RequestRespond(r, o) ==
    /\ requests[r].pc = "inflight"
    /\ CountAttempt(o)
    /\ requests' = [requests EXCEPT ![r] =
                        [pc |-> "done", ret |-> MakeRequest(o).ret]]
    /\ UNCHANGED <<cacheVars, set_calls, get_calls, delete_calls, clear_calls, batchVars>>
    /\ UNCHANGED <<retry_attempts, max_concurrent_requests, now, task_logs,
                   call>>

\* one second passes
Tick ==
    /\ now < MaxTime
    /\ now' = now + 1
    /\ UNCHANGED <<cacheVars, set_calls, get_calls, delete_calls, clear_calls, batchVars>>
    /\ UNCHANGED <<retry_attempts, max_concurrent_requests, task_logs,
                   request_count, total_tokens, attempts_ok, attempts_failed,
                   call, requests>>

\* async with session.request(...) as response: the response of call r has
\* arrived and is counted, and the call waits for the body; or the transport
\* has raised, and the call ends in one of the except clauses
ResponseArrives(r, o) ==
    /\ requests[r].pc = "inflight"
    /\ IF o.kind = "http"
       THEN /\ request_count' = request_count + 1
            /\ requests' = [requests EXCEPT ![r] =
                                [pc |-> "body", ret |-> "none", outcome |-> o]]
            /\ UNCHANGED attempts_failed
       ELSE /\ requests' = [requests EXCEPT ![r] =
                                [pc |-> "done", ret |-> MakeRequest(o).ret,
                                 outcome |-> o]]
            /\ attempts_failed' = attempts_failed + 1
            /\ UNCHANGED request_count
    /\ UNCHANGED <<cacheVars, set_calls, get_calls, delete_calls, clear_calls, batchVars>>
    /\ UNCHANGED <<retry_attempts, max_concurrent_requests, now, task_logs,
                   total_tokens, attempts_ok, call>>

\* an end of call r that adds nothing when another call is between its
\* response and its body
BodyRead_LostUpdate(r) ==
    /\ requests[r].pc = "body"
    /\ LET o == requests[r].outcome
           res == MakeRequest(o)
           racing == \E q \in 1..NumRequests : q # r /\ requests[q].pc = "body"
       IN /\ total_tokens' = IF racing THEN total_tokens ELSE total_tokens + res.tokens
          /\ attempts_ok' = IF res.ret = "data" THEN attempts_ok + 1 ELSE attempts_ok
          /\ attempts_failed' = IF res.ret = "data" THEN attempts_failed
                                 ELSE attempts_failed + 1
          /\ requests' = [requests EXCEPT ![r] =
                              [pc |-> "done", ret |-> res.ret, outcome |-> o]]
    /\ UNCHANGED <<cacheVars, set_calls, get_calls, delete_calls, clear_calls, batchVars>>
    /\ UNCHANGED <<retry_attempts, max_concurrent_requests, now, task_logs,
                   request_count, call>>

\* await response.json() has returned: call r adds the tokens and returns the
\* data, or raises the APIError of the error body
BodyRead(r) ==
    /\ requests[r].pc = "body"
    /\ LET o == requests[r].outcome
           res == MakeRequest(o)
       IN /\ total_tokens' = total_tokens + res.tokens
          /\ attempts_ok' = IF res.ret = "data" THEN attempts_ok + 1 ELSE attempts_ok
          /\ attempts_failed' = IF res.ret = "data" THEN attempts_failed
                                 ELSE attempts_failed + 1
          /\ requests' = [requests EXCEPT ![r] =
                              [pc |-> "done", ret |-> res.ret, outcome |-> o]]
    /\ UNCHANGED <<cacheVars, set_calls, get_calls, delete_calls, clear_calls, batchVars>>
    /\ UNCHANGED <<retry_attempts, max_concurrent_requests, now, task_logs,
                   request_count, call>>

\* one second passes while _make_request calls run
TransportTick ==
    /\ now < MaxTransportTime
    /\ now' = now + 1
    /\ UNCHANGED <<cacheVars, set_calls, get_calls, delete_calls, clear_calls, batchVars>>
    /\ UNCHANGED <<retry_attempts, max_concurrent_requests, task_logs,
                   request_count, total_tokens, attempts_ok, attempts_failed,
                   call, requests>>

\* ---------------------------------------------------------------------
\* CacheManager
\* ---------------------------------------------------------------------

Keys == {"k1"}

\* the values config.cache.cache_ttl takes, in the model's seconds
CacheTtls == {2}

\* the values set is called with for expire, besides None
Expires == {0, 3}

\* the values the overlapping set calls are called with for expire
OverlapExpires == {0, 1}

\* The values callers cache: a number, a string that reads as a number, and a
\* dict. repr is the text str(value) or json.dumps(value) gives.
IntValue == [type |-> "int", repr |-> "5"]
StrValue == [type |-> "str", repr |-> "5"]
DictValue == [type |-> "dict", repr |-> "{\"a\": 1}"]
Values == {StrValue, DictValue}

\* The texts of subtitle lines.
Texts == {"a", "b"}

\* TranslationResult (suggestions and alternative_translations left out);
\* confidence and the four scores in hundredths
TranslationResult(original_text, translated_text, confidence, score) ==
    [original_text |-> original_text, translated_text |-> translated_text,
     confidence |-> confidence, quality_score |-> score, style_score |-> score,
     cultural_score |-> score, character_score |-> score]

\* a failure result with an empty translation
FallbackResult_Empty(text) == TranslationResult(text, "", 0, 0)

\* the result translate_subtitle and translate_batch build when a line fails
FallbackResult(text) == TranslationResult(text, text, 0, 0)

\* the JSON the remote service answers a line with: a translation and scores
RemoteContent(text) == [translation |-> "zh:" \o text, confidence |-> 95, score |-> 90]

\* _parse_translation_response, for a completion that holds such JSON
ParseTranslationResponse(content, text) ==
    TranslationResult(text, content.translation, content.confidence, content.score)

\* result.__dict__ as a cache value; repr is what json.dumps gives for it
ResultDict(r) ==
    [type |-> "dict",
     repr |-> "{" \o r.original_text \o "," \o r.translated_text \o ","
              \o (IF r.confidence = 0 THEN "0.0" ELSE "0.95") \o "}",
     fields |-> r]

\* the result dicts a cache can hold
ResultDicts ==
    {ResultDict(FallbackResult(t)) : t \in Texts}
    \cup {ResultDict(ParseTranslationResponse(RemoteContent(t), t)) : t \in Texts}

\* get's default
NoneValue == [type |-> "NoneType", repr |-> "None"]

\* set: json.dumps(value, ensure_ascii=False) for a dict or a list, else str(value)
Serialize(v) == v.repr

\* get: json.loads(value), and the text itself when it is not JSON
Deserialize(text) ==
    IF text = "5" THEN IntValue
    ELSE IF text = "{\"a\": 1}" THEN DictValue
    ELSE IF \E v \in ResultDicts : v.repr = text
    THEN CHOOSE v \in ResultDicts : v.repr = text
    ELSE [type |-> "str", repr |-> text]

\* dict operations
Put(f, k, v) == [x \in (DOMAIN f) \cup {k} |-> IF x = k THEN v ELSE f[x]]
Remove(f, k) == [x \in (DOMAIN f) \ {k} |-> f[x]]
EmptyDict == [x \in {} |-> 0]

ZeroStats == [memory_hits |-> 0, memory_misses |-> 0, redis_hits |-> 0,
              redis_misses |-> 0, disk_hits |-> 0, disk_misses |-> 0,
              memory_sets |-> 0, redis_sets |-> 0, disk_sets |-> 0]

\* the in-process part of the cache manager, as the helpers below update it
Local == [mem |-> memory_cache, ttl |-> memory_cache_ttl, stats |-> stats]

\* _is_cache_valid
IsCacheValid(key, ttl_dict) ==
    IF key \notin DOMAIN ttl_dict THEN FALSE
    ELSE ttl_dict[key] > loop_time

\* a _set_memory_cache that stores the time to live instead of the deadline
SetMemoryCache_NoDeadline(c, key, value, expire) ==
    [mem |-> Put(c.mem, key, value),
     ttl |-> Put(c.ttl, key, expire),
     stats |-> [c.stats EXCEPT !.memory_sets = @ + 1]]

\* _set_memory_cache
SetMemoryCache(c, key, value, expire) ==
    [mem |-> Put(c.mem, key, value),
     ttl |-> Put(c.ttl, key, loop_time + expire),
     stats |-> [c.stats EXCEPT !.memory_sets = @ + 1]]

\* an entry of Redis or of the disk cache that has not expired
Live(store, key) == key \in DOMAIN store /\ store[key].expires_at > loop_time

\* redis: GET key
RedisGet(key) == IF Live(redis_store, key) THEN redis_store[key].value ELSE "nil"

\* redis: SETEX key ttl value, which Redis refuses when ttl is not positive
RedisSetexOk(expire) == expire > 0
RedisSetex(store, key, expire, text) ==
    Put(store, key, [value |-> text, expires_at |-> loop_time + expire])

\* diskcache.Cache.set(key, value, expire=expire)
DiskSet(store, key, value, expire) ==
    Put(store, key, [value |-> value, expires_at |-> loop_time + expire])

Found(v) == [found |-> TRUE, value |-> v]
NotFound == [found |-> FALSE, value |-> NoneValue]

\* a memory lookup that does not look at the deadline
GetMemory_ServesExpired(c, key) ==
    IF key \in DOMAIN c.mem
    THEN [c |-> [c EXCEPT !.stats.memory_hits = @ + 1],
          hit |-> TRUE, result |-> Found(c.mem[key])]
    ELSE [c |-> [c EXCEPT !.stats.memory_misses = @ + 1],
          hit |-> FALSE, result |-> NotFound]

\* get, step 1: the memory cache. An expired entry is removed.
GetMemory(c, key) ==
    IF key \in DOMAIN c.mem
    THEN IF IsCacheValid(key, c.ttl)
         THEN [c |-> [c EXCEPT !.stats.memory_hits = @ + 1],
               hit |-> TRUE, result |-> Found(c.mem[key])]
         ELSE [c |-> [c EXCEPT !.mem = Remove(@, key), !.ttl = Remove(@, key),
                               !.stats.memory_misses = @ + 1],
               hit |-> FALSE, result |-> NotFound]
    ELSE [c |-> [c EXCEPT !.stats.memory_misses = @ + 1],
          hit |-> FALSE, result |-> NotFound]

\* a Redis lookup that returns the text Redis holds as it is
GetRedis_RawText(c, key, redis_err) ==
    IF redis_available /\ ~redis_err /\ RedisGet(key) # "nil"
    THEN LET cached_value == [type |-> "str", repr |-> RedisGet(key)]
             c1 == SetMemoryCache(c, key, cached_value, cache_ttl)
         IN [c |-> [c1 EXCEPT !.stats.redis_hits = @ + 1],
             hit |-> TRUE, result |-> Found(cached_value)]
    ELSE [c |-> [c EXCEPT !.stats.redis_misses = @ + 1],
          hit |-> FALSE, result |-> NotFound]

\* get, step 2: Redis. redis_err: the call to Redis raises.
GetRedis(c, key, redis_err) ==
    IF redis_available /\ ~redis_err /\ RedisGet(key) # "nil"
    THEN LET cached_value == Deserialize(RedisGet(key))
             c1 == SetMemoryCache(c, key, cached_value, cache_ttl)
         IN [c |-> [c1 EXCEPT !.stats.redis_hits = @ + 1],
             hit |-> TRUE, result |-> Found(cached_value)]
    ELSE [c |-> [c EXCEPT !.stats.redis_misses = @ + 1],
          hit |-> FALSE, result |-> NotFound]

\* a disk lookup that returns the value and leaves the memory cache alone
GetDisk_NoBackfill(c, key, disk_err) ==
    IF ~disk_err /\ Live(disk_cache, key)
    THEN [c |-> [c EXCEPT !.stats.disk_hits = @ + 1],
          hit |-> TRUE, result |-> Found(disk_cache[key].value)]
    ELSE [c |-> [c EXCEPT !.stats.disk_misses = @ + 1],
          hit |-> FALSE, result |-> NotFound]

\* get, step 3: the disk cache. disk_err: the disk cache raises.
GetDisk(c, key, disk_err) ==
    IF ~disk_err /\ Live(disk_cache, key)
    THEN LET cached_value == disk_cache[key].value
             c1 == SetMemoryCache(c, key, cached_value, cache_ttl)
         IN [c |-> [c1 EXCEPT !.stats.disk_hits = @ + 1],
             hit |-> TRUE, result |-> Found(cached_value)]
    ELSE [c |-> [c EXCEPT !.stats.disk_misses = @ + 1],
          hit |-> FALSE, result |-> NotFound]

\* a get that gives up when Redis raises
GetCascade_RedisFatal(key, redis_err, disk_err) ==
    LET s1 == GetMemory(Local, key) IN
    IF s1.hit THEN [c |-> s1.c, result |-> s1.result, source |-> "memory"]
    ELSE LET s2 == GetRedis(s1.c, key, redis_err) IN
         IF s2.hit THEN [c |-> s2.c, result |-> s2.result, source |-> "redis"]
         ELSE IF redis_err THEN [c |-> s2.c, result |-> NotFound, source |-> "none"]
         ELSE LET s3 == GetDisk(s2.c, key, disk_err) IN
              [c |-> s3.c, result |-> s3.result,
               source |-> IF s3.hit THEN "disk" ELSE "none"]

\* a get that counts no miss for the tiers below the memory cache
GetCascade_MissUncounted(key, redis_err, disk_err) ==
    LET s1 == GetMemory(Local, key) IN
    IF s1.hit THEN [c |-> s1.c, result |-> s1.result, source |-> "memory"]
    ELSE LET s2 == GetRedis(s1.c, key, redis_err) IN
         IF s2.hit THEN [c |-> s2.c, result |-> s2.result, source |-> "redis"]
         ELSE LET s3 == GetDisk(s1.c, key, disk_err) IN
              IF s3.hit THEN [c |-> s3.c, result |-> s3.result, source |-> "disk"]
              ELSE [c |-> s1.c, result |-> NotFound, source |-> "none"]

\* get: the three steps in order, stopping at the first hit
GetCascade(key, redis_err, disk_err) ==
    LET s1 == GetMemory(Local, key) IN
    IF s1.hit THEN [c |-> s1.c, result |-> s1.result, source |-> "memory"]
    ELSE LET s2 == GetRedis(s1.c, key, redis_err) IN
         IF s2.hit THEN [c |-> s2.c, result |-> s2.result, source |-> "redis"]
         ELSE LET s3 == GetDisk(s2.c, key, disk_err) IN
              [c |-> s3.c, result |-> s3.result,
               source |-> IF s3.hit THEN "disk" ELSE "none"]

\* a set call: where it is, its arguments, when it wrote the memory cache
\* and when it returned
IdleSet == [pc |-> "idle", key |-> "k1", value |-> NoneValue, expire |-> 0,
            begun_at |-> 0, ended_at |-> 0]

\* a get call: where it is, its key, what Redis replied, what it returned and
\* from which tier, and where the set calls were when it began and ended
IdleGet == [pc |-> "idle", key |-> "k1", reply |-> "nil", result |-> NotFound,
            source |-> "none",
            sets_at_begin |-> [s \in 1..NumSetCalls |-> "idle"],
            sets_at_end |-> [s \in 1..NumSetCalls |-> "idle"]]

\* where each get call is
GetPcs == [g \in 1..NumGetCalls |-> get_calls[g].pc]

\* a delete call: where it is, its key, where the get calls were when it
\* began and ended, and where the set calls were when it began
IdleDelete == [pc |-> "idle", key |-> "k1",
               gets_at_begin |-> [g \in 1..NumGetCalls |-> "idle"],
               gets_at_end |-> [g \in 1..NumGetCalls |-> "idle"],
               sets_at_begin |-> [s \in 1..NumSetCalls |-> "idle"]]

\* a clear call: where it is
IdleClear == [pc |-> "idle"]

NoOp == [op |-> "none", key |-> "k1", value |-> NoneValue, expire |-> 0,
         time |-> 0, result |-> NotFound, source |-> "none"]

CacheInit0 ==
    /\ cache_ttl \in CacheTtls
    /\ loop_time = 0
    /\ memory_cache = EmptyDict
    /\ memory_cache_ttl = EmptyDict
    /\ redis_available \in BOOLEAN
    /\ redis_store = EmptyDict
    /\ disk_cache = EmptyDict
    /\ stats = ZeroStats
    /\ cache_ops = 0
    /\ last = NoOp
    /\ set_calls = [s \in 1..NumSetCalls |-> IdleSet]
    /\ get_calls = [g \in 1..NumGetCalls |-> IdleGet]
    /\ delete_calls = [d \in 1..NumDeleteCalls |-> IdleDelete]
    /\ clear_calls = [c \in 1..NumClearCalls |-> IdleClear]

\* a get that also writes to Redis what the disk cache served
Get_DiskHitFillsRedis(key, redis_err, disk_err) ==
    /\ cache_ops < MaxCacheOps
    /\ redis_err => redis_available
    /\ LET g == GetCascade(key, redis_err, disk_err) IN
        /\ memory_cache' = g.c.mem
        /\ memory_cache_ttl' = g.c.ttl
        /\ stats' = g.c.stats
        /\ redis_store' = IF g.source = "disk" /\ redis_available
                          THEN RedisSetex(redis_store, key, cache_ttl,
                                          Serialize(g.result.value))
                          ELSE redis_store
        /\ last' = [op |-> "get", key |-> key, value |-> NoneValue, expire |-> 0,
                    time |-> loop_time, result |-> g.result, source |-> g.source]
    /\ cache_ops' = cache_ops + 1
    /\ UNCHANGED <<clientVars, set_calls, get_calls, delete_calls, clear_calls, batchVars>>
    /\ UNCHANGED <<cache_ttl, loop_time, redis_available, disk_cache>>

\* await cache_manager.get(key)
Get(key, redis_err, disk_err) ==
    /\ cache_ops < MaxCacheOps
    /\ redis_err => redis_available
    /\ LET g == GetCascade(key, redis_err, disk_err) IN
        /\ memory_cache' = g.c.mem
        /\ memory_cache_ttl' = g.c.ttl
        /\ stats' = g.c.stats
        /\ last' = [op |-> "get", key |-> key, value |-> NoneValue, expire |-> 0,
                    time |-> loop_time, result |-> g.result, source |-> g.source]
    /\ cache_ops' = cache_ops + 1
    /\ UNCHANGED <<clientVars, set_calls, get_calls, delete_calls, clear_calls, batchVars>>
    /\ UNCHANGED <<cache_ttl, loop_time, redis_available, redis_store, disk_cache>>

\* set, steps 2 and 3: the writes to Redis and to the disk cache; a tier
\* that raises is skipped
SetLower(c1, key, value, expire, redis_err, disk_err) ==
    LET redis_written == redis_available /\ ~redis_err /\ RedisSetexOk(expire)
        disk_written == ~disk_err
    IN [c |-> [c1 EXCEPT !.stats.redis_sets = IF redis_written THEN @ + 1 ELSE @,
                         !.stats.disk_sets = IF disk_written THEN @ + 1 ELSE @],
        redis |-> IF redis_written
                  THEN RedisSetex(redis_store, key, expire, Serialize(value))
                  ELSE redis_store,
        disk |-> IF disk_written
                 THEN DiskSet(disk_cache, key, value, expire)
                 ELSE disk_cache]

\* set: the three writes in order
SetCascade(key, value, expire, redis_err, disk_err) ==
    SetLower(SetMemoryCache(Local, key, value, expire),
             key, value, expire, redis_err, disk_err)

\* if expire is None: expire = self.config.cache.cache_ttl
ExpireOrDefault(given, secs) == IF given THEN secs ELSE cache_ttl

\* await cache_manager.set(key, value, expire); given = FALSE: expire is None
Set(key, value, given, secs, redis_err, disk_err) ==
    /\ cache_ops < MaxCacheOps
    /\ ~given => secs = 0
    /\ redis_err => redis_available
    /\ LET expire == ExpireOrDefault(given, secs)
           w == SetCascade(key, value, expire, redis_err, disk_err)
       IN /\ memory_cache' = w.c.mem
          /\ memory_cache_ttl' = w.c.ttl
          /\ redis_store' = w.redis
          /\ disk_cache' = w.disk
          /\ stats' = w.c.stats
          /\ last' = [op |-> "set", key |-> key, value |-> value, expire |-> expire,
                      time |-> loop_time, result |-> NotFound, source |-> "none"]
    /\ cache_ops' = cache_ops + 1
    /\ UNCHANGED <<clientVars, set_calls, get_calls, delete_calls, clear_calls, batchVars>>
    /\ UNCHANGED <<cache_ttl, loop_time, redis_available>>

\* await cache_manager.delete(key)
Delete(key, redis_err, disk_err) ==
    /\ cache_ops < MaxCacheOps
    /\ redis_err => redis_available
    /\ memory_cache' = Remove(memory_cache, key)
    /\ memory_cache_ttl' = Remove(memory_cache_ttl, key)
    /\ redis_store' = IF redis_available /\ ~redis_err
                      THEN Remove(redis_store, key) ELSE redis_store
    /\ disk_cache' = IF ~disk_err /\ Live(disk_cache, key)
                     THEN Remove(disk_cache, key) ELSE disk_cache
    /\ last' = [NoOp EXCEPT !.op = "delete", !.key = key, !.time = loop_time]
    /\ cache_ops' = cache_ops + 1
    /\ UNCHANGED <<clientVars, set_calls, get_calls, delete_calls, clear_calls, batchVars>>
    /\ UNCHANGED <<cache_ttl, loop_time, redis_available, stats>>

\* exists: a valid memory entry, else the answer of Redis when Redis is
\* available and does not raise, else the disk cache
Exists(key, redis_err, disk_err) ==
    IF key \in DOMAIN memory_cache /\ IsCacheValid(key, memory_cache_ttl) THEN TRUE
    ELSE IF redis_available /\ ~redis_err THEN Live(redis_store, key)
    ELSE IF ~disk_err THEN Live(disk_cache, key)
    ELSE FALSE

\* what exists returns, as a value
BoolValue(b) == [type |-> "bool", repr |-> IF b THEN "True" ELSE "False"]

\* await cache_manager.exists(key)
ExistsCall(key, redis_err, disk_err) ==
    /\ cache_ops < MaxCacheOps
    /\ redis_err => redis_available
    /\ last' = [NoOp EXCEPT !.op = "exists", !.key = key, !.time = loop_time,
                            !.value = BoolValue(Exists(key, redis_err, disk_err))]
    /\ cache_ops' = cache_ops + 1
    /\ UNCHANGED <<clientVars, set_calls, get_calls, delete_calls, clear_calls, batchVars>>
    /\ UNCHANGED <<cache_ttl, loop_time, redis_available, memory_cache,
                   memory_cache_ttl, redis_store, disk_cache, stats>>

\* await cache_manager.cleanup_expired()
CleanupExpired ==
    /\ cache_ops < MaxCacheOps
    /\ LET expired_keys == {k \in DOMAIN memory_cache_ttl :
                               memory_cache_ttl[k] <= loop_time}
       IN /\ memory_cache' = [k \in (DOMAIN memory_cache) \ expired_keys |->
                                 memory_cache[k]]
          /\ memory_cache_ttl' = [k \in (DOMAIN memory_cache_ttl) \ expired_keys |->
                                     memory_cache_ttl[k]]
    /\ last' = [NoOp EXCEPT !.op = "cleanup_expired", !.time = loop_time]
    /\ cache_ops' = cache_ops + 1
    /\ UNCHANGED <<clientVars, set_calls, get_calls, delete_calls, clear_calls, batchVars>>
    /\ UNCHANGED <<cache_ttl, loop_time, redis_available, redis_store, disk_cache, stats>>

\* one second passes
CacheTick ==
    /\ loop_time < MaxLoopTime
    /\ loop_time' = loop_time + 1
    /\ UNCHANGED <<clientVars, set_calls, get_calls, delete_calls, clear_calls, batchVars>>
    /\ UNCHANGED <<cache_ttl, memory_cache, memory_cache_ttl, redis_available,
                   redis_store, disk_cache, stats, cache_ops, last>>

CacheNext ==
    \/ \E k \in Keys : \E re, de \in BOOLEAN : Get(k, re, de)
    \/ \E k \in Keys : \E v \in Values : \E given \in BOOLEAN :
         \E secs \in Expires : \E re, de \in BOOLEAN :
            Set(k, v, given, secs, re, de)
    \/ \E k \in Keys : \E re, de \in BOOLEAN : Delete(k, re, de)
    \/ CleanupExpired
    \/ CacheTick

\* the operations of the cache and exists
ExistsNext ==
    \/ CacheNext
    \/ \E k \in Keys : \E re, de \in BOOLEAN : ExistsCall(k, re, de)

\* set as a coroutine. With Redis available it writes the memory cache and
\* waits for setex; other coroutines run and time passes before it goes on.
\* Without Redis nothing in set waits, and the call runs to its end. No tier
\* fails here.
SetBegin(s, key, value, given, secs) ==
    /\ set_calls[s].pc = "idle"
    /\ \A q \in 1..(s - 1) : set_calls[q].pc # "idle"
    /\ ~given => secs = 0
    /\ LET expire == ExpireOrDefault(given, secs)
           c1 == SetMemoryCache(Local, key, value, expire)
           w == SetLower(c1, key, value, expire, FALSE, FALSE)
           started == [pc |-> "setex", key |-> key, value |-> value,
                       expire |-> expire, begun_at |-> loop_time, ended_at |-> 0]
       IN IF redis_available
          THEN /\ memory_cache' = c1.mem
               /\ memory_cache_ttl' = c1.ttl
               /\ stats' = c1.stats
               /\ set_calls' = [set_calls EXCEPT ![s] = started]
               /\ UNCHANGED <<redis_store, disk_cache>>
          ELSE /\ memory_cache' = w.c.mem
               /\ memory_cache_ttl' = w.c.ttl
               /\ stats' = w.c.stats
               /\ redis_store' = w.redis
               /\ disk_cache' = w.disk
               /\ set_calls' = [set_calls EXCEPT ![s] =
                                    [started EXCEPT !.pc = "done",
                                                    !.ended_at = loop_time]]
    /\ UNCHANGED <<clientVars, get_calls, delete_calls, clear_calls, batchVars>>
    /\ UNCHANGED <<cache_ttl, loop_time, redis_available, cache_ops, last>>

\* setex has ended: the call goes on to the disk cache and returns
SetFinish(s) ==
    /\ set_calls[s].pc = "setex"
    /\ LET sc == set_calls[s]
           w == SetLower(Local, sc.key, sc.value, sc.expire, FALSE, FALSE)
       IN /\ redis_store' = w.redis
          /\ disk_cache' = w.disk
          /\ stats' = w.c.stats
          /\ set_calls' = [set_calls EXCEPT ![s] =
                               [sc EXCEPT !.pc = "done", !.ended_at = loop_time]]
    /\ UNCHANGED <<clientVars, get_calls, delete_calls, clear_calls, batchVars>>
    /\ UNCHANGED <<cache_ttl, loop_time, redis_available, memory_cache,
                   memory_cache_ttl, cache_ops, last>>

\* set calls that overlap, with get calls between their steps
OverlapNext ==
    \/ \E s \in 1..NumSetCalls : \E k \in Keys : \E v \in Values :
         \E given \in BOOLEAN : \E secs \in OverlapExpires :
            SetBegin(s, k, v, given, secs)
    \/ \E s \in 1..NumSetCalls : SetFinish(s)
    \/ \E k \in Keys : Get(k, FALSE, FALSE)
    \/ CacheTick

\* where each set call is
SetPcs == [s \in 1..NumSetCalls |-> set_calls[s].pc]

\* get as a coroutine. It looks into the memory cache and, on a miss with
\* Redis available, waits for the reply of Redis; other coroutines run
\* before it goes on. On a memory hit or without Redis nothing in get waits,
\* and the call runs to its end. No tier fails here.
GetBegin(g, key) ==
    /\ get_calls[g].pc = "idle"
    /\ \A q \in 1..(g - 1) : get_calls[q].pc # "idle"
    /\ LET s1 == GetMemory(Local, key)
           c == GetCascade(key, FALSE, FALSE)
           begun == [IdleGet EXCEPT !.key = key, !.sets_at_begin = SetPcs,
                                    !.sets_at_end = SetPcs]
       IN IF s1.hit \/ ~redis_available
          THEN /\ memory_cache' = c.c.mem
               /\ memory_cache_ttl' = c.c.ttl
               /\ stats' = c.c.stats
               /\ get_calls' = [get_calls EXCEPT ![g] =
                                    [begun EXCEPT !.pc = "done", !.result = c.result,
                                                  !.source = c.source]]
          ELSE /\ memory_cache' = s1.c.mem
               /\ memory_cache_ttl' = s1.c.ttl
               /\ stats' = s1.c.stats
               /\ get_calls' = [get_calls EXCEPT ![g] = [begun EXCEPT !.pc = "redis"]]
    /\ UNCHANGED <<clientVars, set_calls, delete_calls, clear_calls, batchVars>>
    /\ UNCHANGED <<cache_ttl, loop_time, redis_available, redis_store, disk_cache,
                   cache_ops, last>>

\* Redis serves the GET of a waiting get call
RedisReplies(g) ==
    /\ get_calls[g].pc = "redis"
    /\ get_calls' = [get_calls EXCEPT ![g].pc = "replied",
                                      ![g].reply = RedisGet(get_calls[g].key)]
    /\ UNCHANGED <<clientVars, cacheVars, set_calls, delete_calls, clear_calls, batchVars>>

\* a get that counts no Redis miss when Redis has no value for the key
OnRedisReply_MissUncounted(c, key, reply) ==
    IF reply # "nil"
    THEN LET cached_value == Deserialize(reply)
             c1 == SetMemoryCache(c, key, cached_value, cache_ttl)
         IN [c |-> [c1 EXCEPT !.stats.redis_hits = @ + 1],
             hit |-> TRUE, result |-> Found(cached_value)]
    ELSE [c |-> c, hit |-> FALSE, result |-> NotFound]

\* get, step 2, from the reply of Redis on: a value is deserialized, written
\* to the memory cache and returned
OnRedisReply(c, key, reply) ==
    IF reply # "nil"
    THEN LET cached_value == Deserialize(reply)
             c1 == SetMemoryCache(c, key, cached_value, cache_ttl)
         IN [c |-> [c1 EXCEPT !.stats.redis_hits = @ + 1],
             hit |-> TRUE, result |-> Found(cached_value)]
    ELSE [c |-> [c EXCEPT !.stats.redis_misses = @ + 1],
          hit |-> FALSE, result |-> NotFound]

\* the waiting get call goes on with the reply: it returns the value of
\* Redis, or looks into the disk cache and returns
GetResume(g) ==
    /\ get_calls[g].pc = "replied"
    /\ LET gc == get_calls[g]
           s2 == OnRedisReply(Local, gc.key, gc.reply)
           s3 == GetDisk(s2.c, gc.key, FALSE)
           c == IF s2.hit THEN s2.c ELSE s3.c
       IN /\ memory_cache' = c.mem
          /\ memory_cache_ttl' = c.ttl
          /\ stats' = c.stats
          /\ get_calls' = [get_calls EXCEPT ![g] =
                [gc EXCEPT !.pc = "done",
                           !.result = IF s2.hit THEN s2.result ELSE s3.result,
                           !.source = IF s2.hit THEN "redis"
                                      ELSE IF s3.hit THEN "disk" ELSE "none",
                           !.sets_at_end = SetPcs]]
    /\ UNCHANGED <<clientVars, set_calls, delete_calls, clear_calls, batchVars>>
    /\ UNCHANGED <<cache_ttl, loop_time, redis_available, redis_store, disk_cache,
                   cache_ops, last>>

\* a delete that leaves the deadline of the key in place
DeleteBegin_KeepsDeadline(d, key) ==
    /\ delete_calls[d].pc = "idle"
    /\ \A q \in 1..(d - 1) : delete_calls[q].pc # "idle"
    /\ memory_cache' = Remove(memory_cache, key)
    /\ UNCHANGED memory_cache_ttl
    /\ LET begun == [IdleDelete EXCEPT !.key = key, !.gets_at_begin = GetPcs,
                                       !.gets_at_end = GetPcs,
                                       !.sets_at_begin = SetPcs]
       IN IF redis_available
          THEN /\ delete_calls' = [delete_calls EXCEPT ![d] =
                                       [begun EXCEPT !.pc = "redis_delete"]]
               /\ UNCHANGED disk_cache
          ELSE /\ delete_calls' = [delete_calls EXCEPT ![d] =
                                       [begun EXCEPT !.pc = "done"]]
               /\ disk_cache' = Remove(disk_cache, key)
    /\ UNCHANGED <<clientVars, set_calls, get_calls, clear_calls, batchVars>>
    /\ UNCHANGED <<cache_ttl, loop_time, redis_available, redis_store, stats,
                   cache_ops, last>>

\* delete as a coroutine. It removes the key from the memory cache and, with
\* Redis available, waits for Redis; without Redis it runs to its end. No
\* tier fails here.
DeleteBegin(d, key) ==
    /\ delete_calls[d].pc = "idle"
    /\ \A q \in 1..(d - 1) : delete_calls[q].pc # "idle"
    /\ memory_cache' = Remove(memory_cache, key)
    /\ memory_cache_ttl' = Remove(memory_cache_ttl, key)
    /\ LET begun == [IdleDelete EXCEPT !.key = key, !.gets_at_begin = GetPcs,
                                       !.gets_at_end = GetPcs,
                                       !.sets_at_begin = SetPcs]
       IN IF redis_available
          THEN /\ delete_calls' = [delete_calls EXCEPT ![d] =
                                       [begun EXCEPT !.pc = "redis_delete"]]
               /\ UNCHANGED disk_cache
          ELSE /\ delete_calls' = [delete_calls EXCEPT ![d] =
                                       [begun EXCEPT !.pc = "done"]]
               /\ disk_cache' = Remove(disk_cache, key)
    /\ UNCHANGED <<clientVars, set_calls, get_calls, clear_calls, batchVars>>
    /\ UNCHANGED <<cache_ttl, loop_time, redis_available, redis_store, stats,
                   cache_ops, last>>

\* the delete of Redis has ended: the call goes on to the disk cache and
\* returns
DeleteFinish(d) ==
    /\ delete_calls[d].pc = "redis_delete"
    /\ redis_store' = Remove(redis_store, delete_calls[d].key)
    /\ disk_cache' = Remove(disk_cache, delete_calls[d].key)
    /\ delete_calls' = [delete_calls EXCEPT ![d].pc = "done",
                                            ![d].gets_at_end = GetPcs]
    /\ UNCHANGED <<clientVars, set_calls, get_calls, clear_calls, batchVars>>
    /\ UNCHANGED <<cache_ttl, loop_time, redis_available, memory_cache,
                   memory_cache_ttl, stats, cache_ops, last>>

\* clear as a coroutine. It empties the memory cache and, with Redis
\* available, waits for flushdb; without Redis it runs to its end.
ClearBegin(c) ==
    /\ clear_calls[c].pc = "idle"
    /\ \A q \in 1..(c - 1) : clear_calls[q].pc # "idle"
    /\ memory_cache' = EmptyDict
    /\ memory_cache_ttl' = EmptyDict
    /\ IF redis_available
       THEN /\ clear_calls' = [clear_calls EXCEPT ![c].pc = "flushdb"]
            /\ UNCHANGED disk_cache
       ELSE /\ clear_calls' = [clear_calls EXCEPT ![c].pc = "done"]
            /\ disk_cache' = EmptyDict
    /\ UNCHANGED <<clientVars, set_calls, get_calls, delete_calls, batchVars>>
    /\ UNCHANGED <<cache_ttl, loop_time, redis_available, redis_store, stats,
                   cache_ops, last>>

\* flushdb has ended: the call empties the disk cache and returns
ClearFinish(c) ==
    /\ clear_calls[c].pc = "flushdb"
    /\ redis_store' = EmptyDict
    /\ disk_cache' = EmptyDict
    /\ clear_calls' = [clear_calls EXCEPT ![c].pc = "done"]
    /\ UNCHANGED <<clientVars, set_calls, get_calls, delete_calls, batchVars>>
    /\ UNCHANGED <<cache_ttl, loop_time, redis_available, memory_cache,
                   memory_cache_ttl, stats, cache_ops, last>>

\* get calls that overlap set calls
RaceNext ==
    \/ \E s \in 1..NumSetCalls : \E k \in Keys : \E v \in Values :
         \E given \in BOOLEAN : \E secs \in OverlapExpires :
            SetBegin(s, k, v, given, secs)
    \/ \E s \in 1..NumSetCalls : SetFinish(s)
    \/ \E g \in 1..NumGetCalls : \E k \in Keys : GetBegin(g, k)
    \/ \E g \in 1..NumGetCalls : RedisReplies(g)
    \/ \E g \in 1..NumGetCalls : GetResume(g)
    \/ CacheTick

\* cleanup_expired run between the steps of other calls: it has no await,
\* so it runs from its start to its end
CleanupExpiredRun ==
    /\ LET expired_keys == {k \in DOMAIN memory_cache_ttl :
                               memory_cache_ttl[k] <= loop_time}
       IN /\ memory_cache' = [k \in (DOMAIN memory_cache) \ expired_keys |->
                                 memory_cache[k]]
          /\ memory_cache_ttl' = [k \in (DOMAIN memory_cache_ttl) \ expired_keys |->
                                     memory_cache_ttl[k]]
    /\ UNCHANGED <<clientVars, set_calls, get_calls, delete_calls, clear_calls,
                   batchVars>>
    /\ UNCHANGED <<cache_ttl, loop_time, redis_available, redis_store, disk_cache,
                   stats, cache_ops, last>>

\* the number of calls made so far
CallsBegun ==
    Cardinality({s \in 1..NumSetCalls : set_calls[s].pc # "idle"})
    + Cardinality({g \in 1..NumGetCalls : get_calls[g].pc # "idle"})
    + Cardinality({d \in 1..NumDeleteCalls : delete_calls[d].pc # "idle"})
    + Cardinality({c \in 1..NumClearCalls : clear_calls[c].pc # "idle"})

\* a call is made while fewer than MaxCalls were made. The set calls store
\* one value, with expire 0 (expired at once) or 1.
SetCall(s, key, secs) == CallsBegun < MaxCalls /\ SetBegin(s, key, StrValue, TRUE, secs)
GetCall(g, key) == CallsBegun < MaxCalls /\ GetBegin(g, key)
DeleteCall(d, key) == CallsBegun < MaxCalls /\ DeleteBegin(d, key)
ClearCall(c) == CallsBegun < MaxCalls /\ ClearBegin(c)

\* get, set, delete, clear and cleanup_expired calls that overlap
ConcurrentNext ==
    \/ \E s \in 1..NumSetCalls : \E k \in Keys : \E secs \in OverlapExpires :
            SetCall(s, k, secs)
    \/ \E s \in 1..NumSetCalls : SetFinish(s)
    \/ \E g \in 1..NumGetCalls : \E k \in Keys : GetCall(g, k)
    \/ \E g \in 1..NumGetCalls : RedisReplies(g)
    \/ \E g \in 1..NumGetCalls : GetResume(g)
    \/ \E d \in 1..NumDeleteCalls : \E k \in Keys : DeleteCall(d, k)
    \/ \E d \in 1..NumDeleteCalls : DeleteFinish(d)
    \/ \E c \in 1..NumClearCalls : ClearCall(c)
    \/ \E c \in 1..NumClearCalls : ClearFinish(c)
    \/ CleanupExpiredRun

\* ---------------------------------------------------------------------
\* ContextAwareTranslator
\* ---------------------------------------------------------------------

\* _generate_cache_key: the md5 of text|character|title|year|style|quality|
\* scene. Within one translate_batch call only the text varies.
GenerateCacheKey(text) == "md5:" \o text

\* expire of the cache write in translate_subtitle: 86400 * 7
ResultExpire == 604800

\* ChatCompletionResponse(choices=data["choices"], ...): the choices are the
\* dicts json decoding gives
ChatCompletionResponse(content) ==
    [choices |-> <<[pytype |-> "dict",
                    message |-> [pytype |-> "dict", content |-> content]]>>]

\* obj.name: an attribute reference. A dict has keys, not attributes, so the
\* reference raises AttributeError.
HasAttr(obj, name) == obj.pytype # "dict" /\ name \in DOMAIN obj

\* chat_completion from its call to its end, given the transport's outcome
\* for each attempt it makes; the waits for the throttler and the sleeps
\* between attempts take time and change nothing else
RECURSIVE RunChatCompletion(_, _)
RunChatCompletion(cc, os) ==
    IF cc.pc = "done" \/ os = <<>> THEN cc
    ELSE LET c1 == OnAttempt([cc EXCEPT !.trace = Append(@, Head(os))],
                             MakeRequest(Head(os)))
             c2 == IF c1.pc = "sleep" THEN LoopHead(c1) ELSE c1
         IN RunChatCompletion(c2, Tail(os))

ChatCompletion(os) == RunChatCompletion(LoopHead(IdleCall), os)

\* the outcome sequences a chat_completion call can meet: it ends with the
\* last outcome and not before
ChatRuns ==
    {os \in UNION {[1..n -> TransportOutcomes] : n \in 1..retry_attempts} :
        /\ ChatCompletion(os).pc = "done"
        /\ Len(ChatCompletion(os).trace) = Len(os)}

\* the counters after the attempts of one chat_completion call
RECURSIVE CountAttempts(_, _)
CountAttempts(counters, os) ==
    IF os = <<>> THEN counters
    ELSE LET r == MakeRequest(Head(os)) IN
         CountAttempts(
            [request_count |-> IF r.counted THEN counters.request_count + 1
                               ELSE counters.request_count,
             total_tokens |-> counters.total_tokens + r.tokens,
             attempts_ok |-> IF r.ret = "data" THEN counters.attempts_ok + 1
                             ELSE counters.attempts_ok,
             attempts_failed |-> IF r.ret = "data" THEN counters.attempts_failed
                                 ELSE counters.attempts_failed + 1],
            Tail(os))

\* TranslationResult(**cached_result): raises TypeError unless the cached
\* value is a dict with the fields of a TranslationResult
IsResultDict(v) == v.type = "dict" /\ "fields" \in DOMAIN v

\* how a coroutine ended: it returned a TranslationResult or raised
NoValue == TranslationResult("", "", 0, 0)
Return(r) == [kind |-> "return", result |-> r]
Raise == [kind |-> "raise", result |-> NoValue]
Pending == [kind |-> "none", result |-> NoValue]

\* a translate_subtitle coroutine handed to gather
NewTask == [pc |-> "created", outcome |-> Pending]

\* how the translation of a line went, for produced
NotRun == [via |-> "none", outcome |-> Pending]

ZeroTranslationStats == [total_lines |-> 0, cache_hits |-> 0]

\* the line a task of the current chunk translates: batch[j - 1]
LineOf(j) == chunk_i + j

\* translate_subtitle, from the call to its first await that suspends: the
\* cache lookup and, on a hit, the return
UnitLookup(text) ==
    LET g == GetCascade(GenerateCacheKey(text), FALSE, FALSE)
        cached_result == g.result.value
    IN [c |-> g.c,
        \* if cached_result: the values a cache holds here are non-empty
        hit |-> g.result.found,
        outcome |-> IF ~g.result.found THEN Pending
                    ELSE IF IsResultDict(cached_result)
                    THEN Return(cached_result.fields)
                    ELSE Raise]

\* a translate_subtitle that treats the fallback as a parsed result, which
\* is then cached and counted
UnitFinish_CachesFallback(text, chat) ==
    LET response == ChatCompletionResponse(RemoteContent(text)) IN
    IF chat.kind = "response" /\ HasAttr(response.choices[1], "message")
    THEN [parsed |-> TRUE,
          result |-> ParseTranslationResponse(
                         response.choices[1].message.content, text)]
    ELSE [parsed |-> TRUE, result |-> FallbackResult(text)]

\* translate_subtitle, from the end of chat_completion to the return: the
\* body of the try and the except branch. parsed = FALSE: an exception was
\* raised in the try.
UnitFinish(text, chat) ==
    LET response == ChatCompletionResponse(RemoteContent(text)) IN
    IF chat.kind = "response" /\ HasAttr(response.choices[1], "message")
    THEN [parsed |-> TRUE,
          result |-> ParseTranslationResponse(
                         response.choices[1].message.content, text)]
    ELSE [parsed |-> FALSE, result |-> FallbackResult(text)]

\* asyncio.gather(*tasks, return_exceptions=True): the outcomes in the order
\* of the tasks; order is the order the tasks finished in
GatherInCompletionOrder(ts, order) == [j \in 1..Len(ts) |-> ts[order[j]].outcome]

GatherResults(ts, order) == [j \in 1..Len(ts) |-> ts[j].outcome]

\* translate_batch's loop over batch_results
HandleResults(batch_results) ==
    [j \in 1..Len(batch_results) |->
        IF batch_results[j].kind = "raise"
        THEN FallbackResult(subtitles[LineOf(j)])
        ELSE batch_results[j].result]

\* the tasks of the chunk in the order they finished
ChunkOrder == [j \in 1..Len(tasks) |-> completed[LineOf(j)] - chunk_i]

BatchInit0 ==
    /\ subtitles \in UNION {[1..n -> Texts] : n \in 0..MaxSubtitles}
    /\ batch_size \in 1..MaxBatchSize
    /\ batch_pc = "idle"
    /\ chunk_i = 0
    /\ tasks = <<>>
    /\ results = <<>>
    /\ completed = <<>>
    /\ produced = [n \in 1..Len(subtitles) |-> NotRun]
    /\ translation_stats = ZeroTranslationStats

\* a loop that hands every remaining line to one gather
ForLoop_WholeRest(i) ==
    IF i < Len(subtitles)
    THEN /\ batch_pc' = "gather"
         /\ chunk_i' = i
         /\ tasks' = [j \in 1..(Len(subtitles) - i) |-> NewTask]
    ELSE /\ batch_pc' = "done"
         /\ UNCHANGED <<chunk_i, tasks>>

\* the head of translate_batch's for loop at i: the coroutines of the next
\* chunk are handed to gather, or the loop ends and results is returned
ForLoop(i) ==
    IF i < Len(subtitles)
    THEN /\ batch_pc' = "gather"
         /\ chunk_i' = i
         /\ tasks' = [j \in 1..Min(batch_size, Len(subtitles) - i) |-> NewTask]
    ELSE /\ batch_pc' = "done"
         /\ UNCHANGED <<chunk_i, tasks>>

\* translate_batch is called
TranslateBatch ==
    /\ batch_pc = "idle"
    /\ results' = <<>>
    /\ ForLoop(0)
    /\ UNCHANGED <<clientVars, cacheVars, set_calls, get_calls, delete_calls, clear_calls>>
    /\ UNCHANGED <<subtitles, batch_size, completed, produced, translation_stats>>

\* a coroutine of the chunk runs from its start: the cache lookup, and the
\* return on a hit; on a miss it goes on to await chat_completion. The event
\* loop starts the tasks gather made in the order it made them.
UnitStart(j) ==
    /\ batch_pc = "gather"
    /\ j \in 1..Len(tasks)
    /\ tasks[j].pc = "created"
    /\ \A k \in 1..(j - 1) : tasks[k].pc # "created"
    /\ LET u == UnitLookup(subtitles[LineOf(j)]) IN
        /\ memory_cache' = u.c.mem
        /\ memory_cache_ttl' = u.c.ttl
        /\ stats' = u.c.stats
        /\ IF u.hit
           THEN /\ translation_stats' = [translation_stats EXCEPT !.cache_hits = @ + 1]
                /\ tasks' = [tasks EXCEPT ![j] = [pc |-> "done", outcome |-> u.outcome]]
                /\ completed' = Append(completed, LineOf(j))
                /\ produced' = [produced EXCEPT ![LineOf(j)] =
                                    [via |-> "cache", outcome |-> u.outcome]]
           ELSE /\ tasks' = [tasks EXCEPT ![j].pc = "remote"]
                /\ UNCHANGED <<translation_stats, completed, produced>>
    /\ UNCHANGED clientVars
    /\ UNCHANGED <<cache_ttl, loop_time, redis_available, redis_store, disk_cache,
                   cache_ops, last, set_calls, get_calls, delete_calls, clear_calls>>
    /\ UNCHANGED <<subtitles, batch_size, batch_pc, chunk_i, results>>

\* the chat_completion call of a coroutine ends, after the attempts os, and
\* the coroutine runs to its return. No response arrives before every task
\* of the chunk has run to its first wait.
UnitRemote(j) ==
    /\ batch_pc = "gather"
    /\ j \in 1..Len(tasks)
    /\ tasks[j].pc = "remote"
    /\ \A k \in 1..Len(tasks) : tasks[k].pc # "created"
    /\ \E os \in ChatRuns :
       LET text == subtitles[LineOf(j)]
           chat == ChatCompletion(os).result
           f == UnitFinish(text, chat)
           w == SetCascade(GenerateCacheKey(text), ResultDict(f.result),
                           ResultExpire, FALSE, FALSE)
           n == CountAttempts([request_count |-> request_count,
                               total_tokens |-> total_tokens,
                               attempts_ok |-> attempts_ok,
                               attempts_failed |-> attempts_failed], os)
       IN /\ request_count' = n.request_count
          /\ total_tokens' = n.total_tokens
          /\ attempts_ok' = n.attempts_ok
          /\ attempts_failed' = n.attempts_failed
          /\ IF f.parsed
             THEN /\ memory_cache' = w.c.mem
                  /\ memory_cache_ttl' = w.c.ttl
                  /\ redis_store' = w.redis
                  /\ disk_cache' = w.disk
                  /\ stats' = w.c.stats
                  /\ translation_stats' = [translation_stats EXCEPT !.total_lines = @ + 1]
             ELSE UNCHANGED <<memory_cache, memory_cache_ttl, redis_store, disk_cache,
                              stats, translation_stats>>
          /\ tasks' = [tasks EXCEPT ![j] = [pc |-> "done", outcome |-> Return(f.result)]]
          /\ completed' = Append(completed, LineOf(j))
          /\ produced' = [produced EXCEPT ![LineOf(j)] =
                              [via |-> IF chat.kind = "response" THEN "remote"
                                       ELSE "remote_failed",
                               outcome |-> Return(f.result)]]
    /\ UNCHANGED <<retry_attempts, max_concurrent_requests, now, task_logs, call,
                   requests>>
    /\ UNCHANGED <<cache_ttl, loop_time, redis_available, cache_ops, last, set_calls,
                   get_calls, delete_calls, clear_calls>>
    /\ UNCHANGED <<subtitles, batch_size, batch_pc, chunk_i, results>>

\* every coroutine of the chunk has ended: gather returns, the results of
\* the chunk are appended, and the loop goes on
GatherReturn ==
    /\ batch_pc = "gather"
    /\ \A j \in 1..Len(tasks) : tasks[j].pc = "done"
    /\ results' = results \o HandleResults(GatherResults(tasks, ChunkOrder))
    /\ ForLoop(chunk_i + batch_size)
    /\ UNCHANGED <<clientVars, cacheVars, set_calls, get_calls, delete_calls, clear_calls>>
    /\ UNCHANGED <<subtitles, batch_size, completed, produced, translation_stats>>

BatchNext ==
    \/ TranslateBatch
    \/ \E j \in 1..MaxBatchSize : UnitStart(j)
    \/ \E j \in 1..MaxBatchSize : UnitRemote(j)
    \/ GatherReturn

\* ---------------------------------------------------------------------
\* Specifications
\* ---------------------------------------------------------------------

\* the client with a configuration chosen, before any call
ClientInit ==
    /\ ClientInit0
    /\ CacheInit0
    /\ redis_available = FALSE
    /\ cache_ttl = 2
    /\ BatchInit0
    /\ subtitles = <<>>
    /\ batch_size = 1

\* the cache manager with a configuration chosen, before any operation
CacheInit ==
    /\ CacheInit0
    /\ ClientInit0
    /\ retry_attempts = 1
    /\ max_concurrent_requests = 1
    /\ BatchInit0
    /\ subtitles = <<>>
    /\ batch_size = 1

\* what the disk cache directory holds for a line when the process starts:
\* nothing, a translation result, or a dict that is not one
PersistedKinds == {"absent", "result", "other"}

PersistedDisk(kinds) ==
    [k \in {GenerateCacheKey(t) : t \in {x \in Texts : kinds[x] # "absent"}} |->
        LET t == CHOOSE x \in Texts : GenerateCacheKey(x) = k IN
        [value |-> IF kinds[t] = "result"
                   THEN ResultDict(ParseTranslationResponse(RemoteContent(t), t))
                   ELSE DictValue,
         expires_at |-> ResultExpire]]

\* the translator before translate_batch is called, with its arguments
\* chosen; every chat_completion call makes one attempt
BatchInit ==
    /\ ClientInit0
    /\ retry_attempts = 1
    /\ max_concurrent_requests = 1
    /\ cache_ttl = 2
    /\ loop_time = 0
    /\ memory_cache = EmptyDict
    /\ memory_cache_ttl = EmptyDict
    /\ redis_available = FALSE
    /\ redis_store = EmptyDict
    /\ disk_cache \in {PersistedDisk(kinds) : kinds \in [Texts -> PersistedKinds]}
    /\ stats = ZeroStats
    /\ cache_ops = 0
    /\ last = NoOp
    /\ set_calls = [s \in 1..NumSetCalls |-> IdleSet]
    /\ get_calls = [g \in 1..NumGetCalls |-> IdleGet]
    /\ delete_calls = [d \in 1..NumDeleteCalls |-> IdleDelete]
    /\ clear_calls = [c \in 1..NumClearCalls |-> IdleClear]
    /\ BatchInit0

\* a chat_completion invocation and its retries
RetryNext ==
    \/ Begin
    \/ Acquire
    \/ \E o \in TransportOutcomes : Respond(o)
    \/ Wake
    \/ Tick

SpecRetry == ClientInit /\ [][RetryNext]_vars

\* asyncio.sleep(wait_time) goes on: the seconds of a backoff sleep pass also
\* beyond the time the model otherwise stops the clock at
SleepTick ==
    /\ call.pc = "sleep"
    /\ now >= MaxTime
    /\ now < call.wake_at
    /\ now' = now + 1
    /\ UNCHANGED <<cacheVars, set_calls, get_calls, delete_calls, clear_calls, batchVars>>
    /\ UNCHANGED <<retry_attempts, max_concurrent_requests, task_logs,
                   request_count, total_tokens, attempts_ok, attempts_failed,
                   call, requests>>

FairRetryNext ==
    \/ Begin
    \/ Acquire
    \/ \E o \in TransportOutcomes : Respond(o)
    \/ Wake
    \/ Tick
    \/ SleepTick

\* one chat_completion call whose steps are not postponed for ever: the
\* throttler admits a call it has room for, every transport call ends
\* (ClientTimeout bounds it), and the clock of a backoff sleep runs
SpecRetryFair ==
    /\ ClientInit
    /\ [][FairRetryNext]_vars
    /\ WF_vars(Acquire)
    /\ WF_vars(\E o \in TransportOutcomes : Respond(o))
    /\ WF_vars(Wake)
    /\ WF_vars(Tick)
    /\ WF_vars(SleepTick)

\* the client with retry_attempts up to MaxBackoffAttempts, before any call
BackoffInit ==
    /\ retry_attempts \in 1..MaxBackoffAttempts
    /\ max_concurrent_requests = 1
    /\ now = 0
    /\ task_logs = <<>>
    /\ request_count = 0
    /\ total_tokens = 0
    /\ attempts_ok = 0
    /\ attempts_failed = 0
    /\ call = IdleCall
    /\ requests = [r \in 1..NumRequests |-> IdleRequest]
    /\ CacheInit0
    /\ redis_available = FALSE
    /\ cache_ttl = 2
    /\ BatchInit0
    /\ subtitles = <<>>
    /\ batch_size = 1

\* await asyncio.sleep(wait_time): wait_time seconds pass and the loop goes on
Sleep ==
    /\ call.pc = "sleep"
    /\ now' = call.wake_at
    /\ call' = LoopHead(call)
    /\ UNCHANGED <<cacheVars, set_calls, get_calls, delete_calls, clear_calls, batchVars>>
    /\ UNCHANGED <<retry_attempts, max_concurrent_requests, task_logs,
                   request_count, total_tokens, attempts_ok, attempts_failed,
                   requests>>

BackoffNext ==
    \/ Begin
    \/ Acquire
    \/ \E o \in TransportOutcomes : Respond(o)
    \/ Sleep

\* one chat_completion call in which time passes in the backoff sleeps only
SpecBackoff == BackoffInit /\ [][BackoffNext]_vars

\* concurrent _make_request calls
TransportNext ==
    \/ \E r \in 1..NumRequests : RequestBegin(r)
    \/ \E r \in 1..NumRequests : RequestAcquire(r)
    \/ \E r \in 1..NumRequests : \E o \in TransportOutcomes : RequestRespond(r, o)
    \/ TransportTick

SpecTransport == ClientInit /\ [][TransportNext]_vars

\* concurrent _make_request calls, each in the steps between its awaits
CountersNext ==
    \/ \E r \in 1..NumRequests : RequestBegin(r)
    \/ \E r \in 1..NumRequests : RequestAcquire(r)
    \/ \E r \in 1..NumRequests : \E o \in TransportOutcomes : ResponseArrives(r, o)
    \/ \E r \in 1..NumRequests : BodyRead(r)

SpecCounters == ClientInit /\ [][CountersNext]_vars

\* the cache manager, one operation at a time
SpecCache == CacheInit /\ [][CacheNext]_vars

\* the cache manager with set calls as coroutines
SpecOverlap == CacheInit /\ [][OverlapNext]_vars

\* the cache operations with exists
SpecExists == CacheInit /\ [][ExistsNext]_vars

\* get calls overlapping set calls
SpecRace == CacheInit /\ [][RaceNext]_vars

\* the calls of the cache manager as coroutines of one event loop
SpecConcurrent == CacheInit /\ [][ConcurrentNext]_vars

\* one translate_batch call
SpecBatch == BatchInit /\ [][BatchNext]_vars

\* ---------------------------------------------------------------------
\* Properties of the retry loop (SpecRetry) and of the transport
\* (SpecTransport)
\* ---------------------------------------------------------------------

Attempts == Len(call.trace)
LastAttempt == call.trace[Len(call.trace)]

\* the transport's outcome is an HTTP 5xx or 429 response
IsRetryableHttp(o) == o.kind = "http" /\ (o.status \in 500..599 \/ o.status = 429)
\* the transport's outcome is a 4xx response other than 429
IsTerminalHttp(o) == o.kind = "http" /\ o.status \in 400..499 /\ o.status # 429
\* the transport's outcome is a 200 response
IsSuccess(o) == o.kind = "http" /\ o.status = 200

AllRetryableHttp == \A i \in 1..Attempts : IsRetryableHttp(call.trace[i])

\* C3: when every attempt of a chat_completion call fails with HTTP 5xx or
\* 429, the call makes exactly retry_attempts attempts: it is not over
\* before the retry_attempts-th attempt has failed, it makes no further
\* attempt, and it then raises the retryable error.
RetryCapExact ==
    (Attempts > 0 /\ AllRetryableHttp) =>
        /\ Attempts <= retry_attempts
        /\ (call.pc = "done") = (Attempts = retry_attempts)
        /\ call.pc = "done" =>
              /\ call.result.kind = "raise"
              /\ call.result.error.status_code = LastAttempt.status

RetryCapReached ==
    /\ call.pc = "done"
    /\ retry_attempts = 3
    /\ Attempts = 3
    /\ AllRetryableHttp
    /\ call.trace[1].status = 500
    /\ call.trace[2].status = 429
    /\ call.result.kind = "raise"

\* C4: an attempt that fails with a 4xx status other than 429 is the last
\* attempt of its chat_completion call, which ends at once by raising that
\* error, whether it is the first attempt or follows retryable failures.
TerminalNoRetry ==
    \A i \in 1..Attempts :
        IsTerminalHttp(call.trace[i]) =>
            /\ i = Attempts
            /\ call.pc = "done"
            /\ call.result.kind = "raise"
            /\ call.result.error.status_code = call.trace[i].status

TerminalAfterRetryable ==
    /\ call.pc = "done"
    /\ retry_attempts = 3
    /\ Attempts = 2
    /\ IsRetryableHttp(call.trace[1])
    /\ IsTerminalHttp(call.trace[2])
    /\ call.result.error.status_code = 400

\* C5: a chat_completion call makes at most retry_attempts attempts,
\* whatever the transport's outcomes are, and a successful attempt is its
\* last: the call returns the response.
AttemptBound ==
    /\ Attempts <= retry_attempts
    /\ \A i \in 1..Attempts :
          IsSuccess(call.trace[i]) =>
              /\ i = Attempts
              /\ call.pc = "done"
              /\ call.result = Returned

SuccessAfterRetries ==
    /\ call.pc = "done"
    /\ retry_attempts = 3
    /\ Attempts = 3
    /\ IsRetryableHttp(call.trace[1])
    /\ IsRetryableHttp(call.trace[2])
    /\ IsSuccess(call.trace[3])
    /\ call.result = Returned

\* C6: an attempt that fails with a network error or a timeout while
\* attempts remain does not end its chat_completion call: the call retries.
NetworkErrorRetried ==
    \A i \in 1..Attempts :
        (call.trace[i].kind \in {"network", "timeout"} /\ i < retry_attempts) =>
            ~(i = Attempts /\ call.pc = "done")

\* C7: a chat_completion call that ends by raising after retry_attempts
\* attempts raises the error of its last attempt.
LastErrorRaised ==
    (call.pc = "done" /\ call.result.kind = "raise" /\ Attempts = retry_attempts) =>
        call.result.error = MakeRequest(LastAttempt).error

LastErrorDiffersFromFirst ==
    /\ call.pc = "done"
    /\ call.result.kind = "raise"
    /\ retry_attempts = 3
    /\ Attempts = 3
    /\ call.trace[1].status = 500
    /\ call.trace[2].status = 429
    /\ call.trace[3].status = 503
    /\ call.result.error.status_code = 503

\* the _make_request calls admitted by the throttler and not yet finished
InFlight ==
    Cardinality({r \in 1..NumRequests : requests[r].pc = "inflight"})
        + (IF call.pc = "inflight" THEN 1 ELSE 0)

\* C8: at no time are more than max_concurrent_requests _make_request calls
\* in flight.
InFlightBounded == InFlight <= max_concurrent_requests

\* C9: request_count is the number of _make_request attempts that have
\* ended, the successful and the failed ones.
StatsCountEveryAttempt == request_count = attempts_ok + attempts_failed

\* ---------------------------------------------------------------------
\* Properties of the cache manager (SpecCache)
\* ---------------------------------------------------------------------

ResultOfLine(i) ==
    IF produced[i].outcome.kind = "raise"
    THEN FallbackResult(subtitles[i])
    ELSE produced[i].outcome.result

\* C1: when translate_batch returns for N lines, results has exactly N
\* entries and entry i is the result of line i (it carries line i's text and
\* is what line i's translate_subtitle call ended with), whatever the order
\* in which the coroutines finished.
BatchOrderPreserved ==
    batch_pc = "done" =>
        /\ Len(results) = Len(subtitles)
        /\ \A i \in 1..Len(subtitles) :
              /\ produced[i].outcome.kind # "none"
              /\ results[i] = ResultOfLine(i)
              /\ results[i].original_text = subtitles[i]

\* C1 witness: three lines in chunks of two, the second line finished before
\* the first, and the two have different results
BatchFinishedOutOfOrder ==
    /\ batch_pc = "done"
    /\ Len(subtitles) = 3
    /\ batch_size = 2
    /\ completed = <<2, 1, 3>>
    /\ Len(results) = 3
    /\ results[1] # results[2]
    /\ produced[1].via = "remote_failed"
    /\ produced[2].via = "cache"

\* the translation of line i failed: the remote call raised, or the
\* coroutine itself raised
LineFailed(i) ==
    produced[i].via = "remote_failed" \/ produced[i].outcome.kind = "raise"

\* the real result of a line that did not fail: the cached result, or the
\* result parsed from the completion the remote service returned
RealResult(i) ==
    IF produced[i].via = "cache"
    THEN produced[i].outcome.result
    ELSE ParseTranslationResponse(RemoteContent(subtitles[i]), subtitles[i])

\* C2: when translate_batch returns, the slot of every line whose translation
\* failed holds the fallback result for that line (translated_text = the
\* original text, confidence and all scores 0) and the slot of every other
\* line holds that line's real result.
BatchIsolation ==
    batch_pc = "done" =>
        \A i \in 1..Len(subtitles) :
            IF LineFailed(i)
            THEN results[i] = FallbackResult(subtitles[i])
            ELSE results[i] = RealResult(i)

\* ---------------------------------------------------------------------
\* Properties of the cache manager with set calls as coroutines
\* (SpecOverlap)
\* ---------------------------------------------------------------------

\* the set calls made so far on a key
CallsOn(k) == {s \in 1..NumSetCalls : set_calls[s].pc # "idle" /\ set_calls[s].key = k}

\* every set call on k has returned, and its ttl has elapsed since it did
TtlElapsed(k) ==
    /\ CallsOn(k) # {}
    /\ \A s \in CallsOn(k) :
          /\ set_calls[s].pc = "done"
          /\ loop_time >= set_calls[s].ended_at + set_calls[s].expire

\* C11: a get(k) issued once ttl seconds have elapsed since the last
\* set(k, v, ttl) returned finds k absent.
AbsentAfterTtl ==
    [][(/\ cache_ops' = cache_ops + 1
        /\ last'.op = "get"
        /\ TtlElapsed(last'.key))
       => ~last'.result.found]_vars

\* C16: once overlapping set calls on a key have all returned (every tier
\* reachable, ttl > 0, no other write to the memory cache), the three tiers
\* hold the value of one and the same call.
TiersAgreeAfterSets ==
    \A k \in Keys :
        (/\ redis_available
         /\ Cardinality(CallsOn(k)) = NumSetCalls
         /\ \A s \in CallsOn(k) : set_calls[s].pc = "done" /\ set_calls[s].expire > 0
         /\ stats.memory_sets = NumSetCalls)
        => \E s \in CallsOn(k) :
              /\ memory_cache[k] = set_calls[s].value
              /\ redis_store[k].value = Serialize(set_calls[s].value)
              /\ disk_cache[k].value = set_calls[s].value

\* ---------------------------------------------------------------------
\* Properties of the cache manager, one operation at a time (SpecCache),
\* continued
\* ---------------------------------------------------------------------

\* a get has just returned
JustGot == last.op = "get" /\ last.time = loop_time

\* the memory cache holds a valid entry for k
MemoryValid(k) == k \in DOMAIN memory_cache /\ IsCacheValid(k, memory_cache_ttl)

\* C12: when a get(k) has been served by the disk cache, it returned the disk
\* cache's value and stored it in the memory cache, and a get(k) issued
\* straight after is a memory hit: it returns the same value, adds one to
\* memory_hits and touches no other counter, whatever the lower tiers do.
DiskHitBackfillsMemory ==
    (JustGot /\ last.source = "disk") =>
        /\ last.result = Found(disk_cache[last.key].value)
        /\ MemoryValid(last.key)
        /\ memory_cache[last.key] = last.result.value
        /\ \A re, de \in BOOLEAN :
              LET g == GetCascade(last.key, re, de) IN
              /\ g.source = "memory"
              /\ g.result = last.result
              /\ g.c.stats = [stats EXCEPT !.memory_hits = @ + 1]

\* C12 witness: a get served by the disk cache after the memory entry was
\* deleted
ServedFromDisk ==
    /\ JustGot
    /\ last.source = "disk"
    /\ stats.disk_hits = 1
    /\ stats.memory_sets = 2
    /\ last.result.found

\* C13: after a get(k) served by Redis or the disk cache, every faster tier
\* holds k with an expiry equal to or later than that of the entry that
\* served the read.
BackfillKeepsExpiry ==
    (JustGot /\ last.source \in {"redis", "disk"}) =>
        LET k == last.key
            served == IF last.source = "redis" THEN redis_store[k].expires_at
                      ELSE disk_cache[k].expires_at
        IN /\ k \in DOMAIN memory_cache
           /\ memory_cache_ttl[k] >= served
           /\ (last.source = "disk" /\ redis_available) =>
                 /\ Live(redis_store, k)
                 /\ redis_store[k].expires_at >= served

\* the arguments set is called with
SetArgs == {a \in [given : BOOLEAN, secs : Expires] : ~a.given => a.secs = 0}

\* C14: a set(k, v, ttl) with every tier reachable leaves (k, v) in the
\* memory cache, in Redis and in the disk cache, each with expiry now + ttl,
\* where ttl is cache_ttl when it is not given.
WriteThroughAllTiers ==
    [][\A k \in Keys, v \in Values, a \in SetArgs :
          (redis_available /\ Set(k, v, a.given, a.secs, FALSE, FALSE)) =>
              LET ttl == IF a.given THEN a.secs ELSE cache_ttl IN
              /\ memory_cache'[k] = v
              /\ memory_cache_ttl'[k] = loop_time + ttl
              /\ k \in DOMAIN redis_store'
              /\ redis_store'[k] = [value |-> Serialize(v), expires_at |-> loop_time + ttl]
              /\ k \in DOMAIN disk_cache'
              /\ disk_cache'[k] = [value |-> v, expires_at |-> loop_time + ttl]]_vars

\* C15: with Redis unavailable, or available and raising in the call, a
\* get(k) returns the valid memory entry, else the live disk entry, else
\* absent; a set(k, v) writes the memory cache, writes the disk cache unless
\* the disk cache raises, and leaves Redis alone.
DegradedMode ==
    \A k \in Keys :
        LET redis_err == redis_available IN
        /\ GetCascade(k, redis_err, FALSE).result =
              IF MemoryValid(k) THEN Found(memory_cache[k])
              ELSE IF Live(disk_cache, k) THEN Found(disk_cache[k].value)
              ELSE NotFound
        /\ \A v \in Values, a \in SetArgs, disk_err \in BOOLEAN :
              LET ttl == ExpireOrDefault(a.given, a.secs)
                  w == SetCascade(k, v, ttl, redis_err, disk_err)
              IN /\ w.c.mem[k] = v
                 /\ w.c.ttl[k] = loop_time + ttl
                 /\ w.redis = redis_store
                 /\ w.disk = IF disk_err THEN disk_cache
                             ELSE DiskSet(disk_cache, k, v, ttl)

\* C15 witness: without Redis, a set was followed by a get that the memory
\* cache could not serve and the disk cache did
DegradedGetFromDisk ==
    /\ ~redis_available
    /\ JustGot
    /\ last.source = "disk"
    /\ stats.memory_sets = 2
    /\ stats.disk_sets = 1
    /\ stats.redis_sets = 0

\* ---------------------------------------------------------------------
\* Properties of translate_subtitle within translate_batch (SpecBatch)
\* ---------------------------------------------------------------------

\* the chunk a line is translated in
ChunkOf(i) == (i - 1) \div batch_size

\* the result parsed from the completion the remote service returns for line i
ParsedResult(i) == ParseTranslationResponse(RemoteContent(subtitles[i]), subtitles[i])

\* C17: a line that was not cached and whose remote call returned a
\* completion gets the parsed result, the cache holds that result under the
\* line's key, and a line with the same key in a later chunk is served by
\* the cache with the same result.
RemoteResultCached ==
    batch_pc = "done" =>
        \A i \in 1..Len(subtitles) :
            produced[i].via = "remote" =>
                LET key == GenerateCacheKey(subtitles[i]) IN
                /\ results[i] = ParsedResult(i)
                /\ MemoryValid(key)
                /\ memory_cache[key] = ResultDict(ParsedResult(i))
                /\ \A n \in 1..Len(subtitles) :
                      (ChunkOf(n) > ChunkOf(i) /\ subtitles[n] = subtitles[i]) =>
                          /\ produced[n].via = "cache"
                          /\ results[n] = results[i]

\* C18: when translate_batch has returned and no remote call succeeded,
\* results has one entry per line and the entry of every line that went to
\* the remote service echoes the line's text with confidence and the four
\* scores 0.
OutageGivesFallbacks ==
    (batch_pc = "done" /\ \A i \in 1..Len(subtitles) : produced[i].via # "remote") =>
        /\ Len(results) = Len(subtitles)
        /\ \A i \in 1..Len(subtitles) :
              produced[i].via = "remote_failed" =>
                  /\ results[i].original_text = subtitles[i]
                  /\ results[i].translated_text = subtitles[i]
                  /\ results[i].confidence = 0
                  /\ results[i].quality_score = 0
                  /\ results[i].style_score = 0
                  /\ results[i].cultural_score = 0
                  /\ results[i].character_score = 0

\* C18 witness: three lines, nothing cached, every remote call failed, and
\* translate_batch returned
OutageBatchReturned ==
    /\ batch_pc = "done"
    /\ Len(subtitles) = 3
    /\ Len(results) = 3
    /\ \A i \in 1..3 : produced[i].via = "remote_failed"
    /\ attempts_failed >= 3
    /\ attempts_ok = 0

\* ---------------------------------------------------------------------
\* Termination of chat_completion (SpecRetryFair)
\* ---------------------------------------------------------------------

\* chat_completion has ended: it returned a response or raised an APIError
Ended ==
    /\ call.pc = "done"
    /\ \/ call.result = Returned
       \/ /\ call.result.kind = "raise"
          /\ call.result.error \in [status_code : {0} \cup HttpStatuses,
                                    message : {"error message", "Network error",
                                               "Request timeout",
                                               "Max retry attempts exceeded"}]

\* C19: every chat_completion call that was made ends, returning a response
\* or raising an APIError, whatever the transport answers.
ChatCompletionEnds == (call.pc # "idle") ~> Ended

\* C19 witness: a call that ended after as many retryable failures as it has
\* attempts, the last backoff sleep running beyond MaxTime
EndedAfterLongBackoff ==
    /\ Ended
    /\ retry_attempts = MaxRetryAttempts
    /\ Len(call.trace) = MaxRetryAttempts
    /\ call.result.kind = "raise"
    /\ IsRetryable(call.result.error)
    /\ now > MaxTime

\* ---------------------------------------------------------------------
\* Admission after failed calls (SpecTransport)
\* ---------------------------------------------------------------------

\* no _make_request call is admitted and unfinished
NoneInFlight == InFlight = 0

\* every admission the throttler remembers is older than one period
PeriodPassed == \A n \in 1..Len(task_logs) : now - task_logs[n] > ThrottlerPeriod

ExpectedWait(k) == IF k = 1 THEN 2 ELSE IF k = 2 THEN 4 ELSE IF k = 3 THEN 8 ELSE 10

\* C21: when the k-th attempt of a call fails with HTTP 5xx or 429 and
\* attempts remain, the call sleeps, for min(2^k, 10) seconds (2, 4, 8, 10,
\* 10, ...), and the next attempt starts no earlier; when the failure uses up
\* the attempts, or is a 4xx other than 429, the call ends without sleeping.
BackoffSchedule ==
    [][/\ (call.pc = "inflight" /\ call'.pc # "inflight") =>
            LET k == Len(call'.trace)
                o == call'.trace[k]
            IN /\ (IsRetryableHttp(o) /\ k < retry_attempts) =>
                     /\ call'.pc = "sleep"
                     /\ call'.wake_at = now + ExpectedWait(k)
               /\ (IsRetryableHttp(o) /\ k >= retry_attempts) => call'.pc = "done"
               /\ IsTerminalHttp(o) => call'.pc = "done"
       /\ (call.pc = "sleep" /\ call'.pc # "sleep") =>
            /\ call'.pc = "acquire"
            /\ now' >= call.wake_at]_vars

\* C21 witness: the fourth failure in a row, at 2 + 4 + 8 seconds, is followed
\* by a sleep of 10 seconds
SleepsAtTheCap ==
    /\ call.pc = "sleep"
    /\ Len(call.trace) = 4
    /\ now = 14
    /\ call.wake_at = 24

\* ---------------------------------------------------------------------
\* What _make_request returns, raises and counts (SpecTransport)
\* ---------------------------------------------------------------------

\* C27: a _make_request call whose response has a status outside 200..299
\* raises an APIError with that status and the body's error message, and a
\* call whose response has a status in 200..299 returns the data.
StatusDecidesOutcome ==
    [][\A r \in 1..NumRequests, o \in TransportOutcomes :
          (o.kind = "http" /\ RequestRespond(r, o)) =>
              IF o.status \in 200..299
              THEN requests'[r].ret = "data"
              ELSE /\ requests'[r].ret = "raise"
                   /\ MakeRequest(o).error = APIError(o.status, "error message")]_vars

\* C28: a _make_request call that ends adds the response's
\* usage.total_tokens to total_tokens when the response is a 200 with usage
\* in its body, and leaves total_tokens alone otherwise.
TokensAddedOnUsage ==
    [][\A r \in 1..NumRequests, o \in TransportOutcomes :
          RequestRespond(r, o) =>
              total_tokens' = total_tokens
                  + (IF IsSuccess(o) /\ o.has_usage THEN o.total_tokens ELSE 0)]_vars

\* C28 witness: two calls have ended, one with usage in its response and one
\* by an error, and only the first was added
TokensOfOneCall ==
    /\ \A r \in 1..NumRequests : requests[r].pc = "done"
    /\ requests[1].ret = "data"
    /\ requests[2].ret = "raise"
    /\ request_count = 2
    /\ total_tokens = MaxTokens

\* ---------------------------------------------------------------------
\* The counters under concurrent _make_request calls (SpecCounters)
\* ---------------------------------------------------------------------

\* the calls whose response has arrived
Received ==
    {r \in 1..NumRequests :
        requests[r].pc \in {"body", "done"} /\ requests[r].outcome.kind = "http"}

\* the calls that returned data with usage in it
ReturnedUsage ==
    {r \in 1..NumRequests :
        /\ requests[r].pc = "done"
        /\ IsSuccess(requests[r].outcome)
        /\ requests[r].outcome.has_usage}

\* the sum of usage.total_tokens over the calls in S
RECURSIVE UsageTotal(_)
UsageTotal(S) ==
    IF S = {} THEN 0
    ELSE LET r == CHOOSE x \in S : TRUE
         IN requests[r].outcome.total_tokens + UsageTotal(S \ {r})

\* C29: however concurrent _make_request calls interleave, request_count is
\* the number of responses that have arrived and total_tokens is the sum of
\* the usage totals of the calls that returned data; so it is once all the
\* calls have ended.
NoLostUpdate ==
    /\ request_count = Cardinality(Received)
    /\ total_tokens = UsageTotal(ReturnedUsage)

\* C29 witness: two calls admitted in the same second have both returned
\* data with usage in it
OverlappedCallsEnded ==
    /\ \A r \in 1..2 :
          /\ requests[r].pc = "done"
          /\ requests[r].ret = "data"
          /\ requests[r].outcome.total_tokens = MaxTokens
    /\ request_count = 2
    /\ total_tokens = 2 * MaxTokens
    /\ Len(task_logs) = 2
    /\ task_logs[1] = task_logs[2]

\* ---------------------------------------------------------------------
\* Properties of get, tier by tier (SpecCache)
\* ---------------------------------------------------------------------

\* C23: in every state where the memory cache has no valid entry for k and
\* Redis is available and holds k, a get(k) returns the deserialized value,
\* stores it in the memory cache with expiry now + cache_ttl, adds one to
\* redis_hits and leaves disk_hits and disk_misses alone, whatever the disk
\* cache would do.
RedisHitBackfillsMemory ==
    \A k \in Keys :
        (~MemoryValid(k) /\ redis_available /\ Live(redis_store, k)) =>
            \A disk_err \in BOOLEAN :
                LET g == GetCascade(k, FALSE, disk_err)
                    cached_value == Deserialize(redis_store[k].value)
                IN /\ g.source = "redis"
                   /\ g.result = Found(cached_value)
                   /\ g.c.mem[k] = cached_value
                   /\ g.c.ttl[k] = loop_time + cache_ttl
                   /\ g.c.stats.redis_hits = stats.redis_hits + 1
                   /\ g.c.stats.redis_misses = stats.redis_misses
                   /\ g.c.stats.disk_hits = stats.disk_hits
                   /\ g.c.stats.disk_misses = stats.disk_misses

\* C23 witness: a get was served by Redis after the memory entry had expired
\* or was deleted
ServedFromRedis ==
    /\ JustGot
    /\ last.source = "redis"
    /\ last.result = Found(DictValue)
    /\ stats.redis_hits = 1
    /\ stats.disk_hits + stats.disk_misses = 0
    /\ memory_cache_ttl[last.key] = loop_time + cache_ttl

\* C24: a get(k) served by the disk cache leaves Redis and the disk cache as
\* they were, and in the memory cache it changes the entry of k only.
DiskHitChangesMemoryOnly ==
    [][(cache_ops' = cache_ops + 1 /\ last'.op = "get" /\ last'.source = "disk") =>
          /\ redis_store' = redis_store
          /\ disk_cache' = disk_cache
          /\ memory_cache' = Put(memory_cache, last'.key, last'.result.value)
          /\ \A k \in (DOMAIN memory_cache_ttl') \ {last'.key} :
                k \in DOMAIN memory_cache_ttl /\ memory_cache_ttl'[k] = memory_cache_ttl[k]]_vars

\* C24 witness: a get was served by the disk cache while Redis was available
\* and did not hold the key, and Redis still does not hold it
DiskHitLeavesRedisEmpty ==
    /\ JustGot
    /\ last.source = "disk"
    /\ redis_available
    /\ last.key \notin DOMAIN redis_store
    /\ last.key \in DOMAIN memory_cache

\* C25: in every state where the memory cache holds k with a deadline not
\* later than now, a get(k) is not served by the memory cache: it removes k
\* and its deadline, counts a memory miss and goes on with Redis and the
\* disk cache, and k is in the memory cache afterwards only when one of
\* them served it.
ExpiredEntryPurged ==
    \A k \in Keys :
        (k \in DOMAIN memory_cache /\ k \in DOMAIN memory_cache_ttl
                                   /\ memory_cache_ttl[k] <= loop_time) =>
            /\ LET s1 == GetMemory(Local, k) IN
                 /\ ~s1.hit
                 /\ k \notin DOMAIN s1.c.mem
                 /\ k \notin DOMAIN s1.c.ttl
            /\ \A redis_err, disk_err \in BOOLEAN :
                 LET g == GetCascade(k, redis_err, disk_err)
                     redis_serves == redis_available /\ ~redis_err /\ Live(redis_store, k)
                     disk_serves == ~disk_err /\ Live(disk_cache, k)
                 IN /\ g.source # "memory"
                    /\ g.c.stats.memory_hits = stats.memory_hits
                    /\ g.c.stats.memory_misses = stats.memory_misses + 1
                    /\ g.source = IF redis_serves THEN "redis"
                                  ELSE IF disk_serves THEN "disk" ELSE "none"
                    /\ g.source = "none" =>
                          /\ g.result = NotFound
                          /\ k \notin DOMAIN g.c.mem
                          /\ k \notin DOMAIN g.c.ttl

\* C25 witness: a set with expire 0 left an expired entry in the memory
\* cache, and the get that followed removed it and found nothing
ExpiredEntryRemovedByGet ==
    /\ JustGot
    /\ cache_ops = 2
    /\ stats.memory_sets = 1
    /\ stats.memory_misses = 1
    /\ ~last.result.found
    /\ last.key \notin DOMAIN memory_cache
    /\ last.key \notin DOMAIN memory_cache_ttl

\* C26: in every state where no tier holds k (no valid memory entry, no live
\* entry in Redis or Redis not reachable, no live entry in the disk cache or
\* the disk cache raising), a get(k) returns the default and adds one to
\* memory_misses, to redis_misses when Redis was consulted, and to
\* disk_misses, and adds to no hit counter.
MissEverywhere ==
    \A k \in Keys, redis_err, disk_err \in BOOLEAN :
        (/\ ~MemoryValid(k)
         /\ ~(redis_available /\ ~redis_err /\ Live(redis_store, k))
         /\ ~(~disk_err /\ Live(disk_cache, k))) =>
            LET g == GetCascade(k, redis_err, disk_err) IN
            /\ g.result = NotFound
            /\ g.source = "none"
            /\ g.c.stats.memory_misses = stats.memory_misses + 1
            /\ redis_available => g.c.stats.redis_misses = stats.redis_misses + 1
            /\ g.c.stats.disk_misses = stats.disk_misses + 1
            /\ g.c.stats.memory_hits = stats.memory_hits
            /\ g.c.stats.redis_hits = stats.redis_hits
            /\ g.c.stats.disk_hits = stats.disk_hits

\* C26 witness: the first operation was a get with Redis available, and it
\* found the key in no tier
MissedAllThreeTiers ==
    /\ JustGot
    /\ cache_ops = 1
    /\ redis_available
    /\ last.result = NotFound
    /\ stats.memory_misses = 1
    /\ stats.redis_misses = 1
    /\ stats.disk_misses = 1

\* ---------------------------------------------------------------------
\* The rounds of translate_batch (SpecBatch)
\* ---------------------------------------------------------------------

\* the translate_subtitle call of line n has ended
UnitCompleted(n) == produced[n] # NotRun

\* the translate_subtitle call of line n has begun to run
UnitStarted(n) ==
    \/ UnitCompleted(n)
    \/ /\ batch_pc = "gather"
       /\ n - chunk_i \in 1..Len(tasks)
       /\ tasks[n - chunk_i].pc # "created"

\* the lines whose call has begun and not ended
UnitsInFlight == {n \in 1..Len(subtitles) : UnitStarted(n) /\ ~UnitCompleted(n)}

\* the number of gathers so far
Rounds == IF batch_pc = "idle" \/ Len(subtitles) = 0 THEN 0
          ELSE chunk_i \div batch_size + 1

\* C22: a line's call has begun only when the calls of every line of the
\* chunks before its own have ended; at most batch_size calls have begun and
\* not ended; the coroutines handed to a gather are those of one chunk; and
\* when translate_batch has returned it has made ceil(N / batch_size)
\* gathers, one after the other.
ChunksRunInRounds ==
    /\ \A n, k \in 1..Len(subtitles) :
          (UnitStarted(n) /\ ChunkOf(k) < ChunkOf(n)) => UnitCompleted(k)
    /\ Cardinality(UnitsInFlight) <= batch_size
    /\ Len(tasks) <= batch_size
    /\ batch_pc = "gather" => \A j \in 1..Len(tasks) : ChunkOf(LineOf(j)) = Rounds - 1
    /\ batch_pc = "done" =>
          /\ Rounds = (Len(subtitles) + batch_size - 1) \div batch_size
          /\ \A n \in 1..Len(subtitles) : UnitCompleted(n)

\* C22 witness: three lines with batch_size 2 were translated in two rounds;
\* in the first, the call of line 2 ended before that of line 1
ThreeLinesTwoRounds ==
    /\ batch_pc = "done"
    /\ Len(subtitles) = 3
    /\ batch_size = 2
    /\ Rounds = 2
    /\ completed = <<2, 1, 3>>
    /\ Len(results) = 3

\* ---------------------------------------------------------------------
\* A get overlapping a set (SpecRace)
\* ---------------------------------------------------------------------

\* the get call g and the set call s ran at the same time: s was waiting
\* for Redis when g began, or s began before g ended
Overlapped(g, s) ==
    \/ get_calls[g].sets_at_begin[s] = "setex"
    \/ get_calls[g].sets_at_begin[s] = "idle" /\ get_calls[g].sets_at_end[s] # "idle"

\* no set call began after s
LastSet(s) == \A q \in (s + 1)..NumSetCalls : set_calls[q].pc = "idle"

\* C30: when a get(k) and the last set(k, new) overlapped and both have
\* returned, and the lifetime given to new has not passed, the memory cache
\* holds new for k (as the set wrote it or as a read of it from Redis gives
\* it).
SetSurvivesOverlappingGet ==
    \A g \in 1..NumGetCalls, s \in 1..NumSetCalls :
        (/\ get_calls[g].pc = "done"
         /\ set_calls[s].pc = "done"
         /\ get_calls[g].key = set_calls[s].key
         /\ Overlapped(g, s)
         /\ LastSet(s)
         /\ loop_time < set_calls[s].begun_at + set_calls[s].expire) =>
            /\ set_calls[s].key \in DOMAIN memory_cache
            /\ memory_cache[set_calls[s].key] \in
                  {set_calls[s].value, Deserialize(Serialize(set_calls[s].value))}

\* ---------------------------------------------------------------------
\* delete and exists (SpecExists)
\* ---------------------------------------------------------------------

\* C31: when the last operation was a delete(k), whatever failed in it, a
\* get(k) returns absent and exists(k) returns false.
AbsentAfterDelete ==
    last.op = "delete" =>
        /\ GetCascade(last.key, FALSE, FALSE).result = NotFound
        /\ ~Exists(last.key, FALSE, FALSE)

\* C33: exists(k) returns true exactly when a get(k) made in the same state
\* returns a value.
ExistsAgreesWithGet ==
    \A k \in Keys : Exists(k, FALSE, FALSE) = GetCascade(k, FALSE, FALSE).result.found

\* ---------------------------------------------------------------------
\* The Redis tier: values and counters (SpecCache)
\* ---------------------------------------------------------------------

\* C36: when the last operation was a set(k, v) that wrote Redis, a get(k)
\* served from Redis returns v.
RedisRoundTrip ==
    (/\ last.op = "set"
     /\ redis_available
     /\ Live(redis_store, last.key)
     /\ redis_store[last.key] = [value |-> Serialize(last.value),
                                 expires_at |-> last.time + last.expire]) =>
        OnRedisReply(Local, last.key, RedisGet(last.key)).result = Found(last.value)

\* C37: with Redis unavailable, a get(k) leaves redis_hits and redis_misses
\* as they were.
RedisCountersUntouched ==
    ~redis_available =>
        \A k \in Keys, disk_err \in BOOLEAN :
            LET g == GetCascade(k, FALSE, disk_err) IN
            /\ g.c.stats.redis_hits = stats.redis_hits
            /\ g.c.stats.redis_misses = stats.redis_misses

\* ---------------------------------------------------------------------
\* Lines with the same cache key, and failed remote calls (SpecBatch)
\* ---------------------------------------------------------------------

\* the translate_subtitle call of line n has called chat_completion
RemoteInvoked(n) ==
    \/ produced[n].via \in {"remote", "remote_failed"}
    \/ /\ batch_pc = "gather"
       /\ n - chunk_i \in 1..Len(tasks)
       /\ tasks[n - chunk_i].pc = "remote"

\* C34: of two lines of one chunk with the same text, and so the same cache
\* key, at most one has called the remote service.
OneRemoteCallPerKey ==
    \A n, k \in 1..Len(subtitles) :
        (n < k /\ ChunkOf(n) = ChunkOf(k)
               /\ GenerateCacheKey(subtitles[n]) = GenerateCacheKey(subtitles[k])) =>
            ~(RemoteInvoked(n) /\ RemoteInvoked(k))

\* C35: a step in which the chat_completion call of a line ends in an error
\* changes no cache tier, no cache counter and not translation_stats.
FailedCallCachesNothing ==
    [][(\E n \in 1..Len(subtitles) :
           produced[n].via = "none" /\ produced'[n].via = "remote_failed") =>
          /\ memory_cache' = memory_cache
          /\ memory_cache_ttl' = memory_cache_ttl
          /\ redis_store' = redis_store
          /\ disk_cache' = disk_cache
          /\ stats' = stats
          /\ translation_stats' = translation_stats]_vars

\* C35 witness: the only line of a batch failed at the remote service, a
\* fallback was returned, and the cache and translation_stats are as they
\* were before the call
FailedLineLeftNoTrace ==
    /\ batch_pc = "done"
    /\ Len(subtitles) = 1
    /\ produced[1].via = "remote_failed"
    /\ results = <<FallbackResult(subtitles[1])>>
    /\ memory_cache = EmptyDict
    /\ disk_cache = EmptyDict
    /\ translation_stats = ZeroTranslationStats
    /\ attempts_failed = 1

\* ---------------------------------------------------------------------
\* Overlapping calls of the cache manager (SpecConcurrent)
\* ---------------------------------------------------------------------

\* the get call g and the delete call d ran at the same time: g was waiting
\* for Redis when d began, or g began before d ended
GetOverlappedDelete(g, d) ==
    \/ delete_calls[d].gets_at_begin[g] \in {"redis", "replied"}
    \/ delete_calls[d].gets_at_begin[g] = "idle" /\ delete_calls[d].gets_at_end[g] # "idle"

\* every set call made so far had returned when the delete call d began
NoSetSince(d) ==
    \A s \in 1..NumSetCalls :
        \/ delete_calls[d].sets_at_begin[s] = "done"
        \/ delete_calls[d].sets_at_begin[s] = "idle" /\ set_calls[s].pc = "idle"

\* C32: when a get(k) and a delete(k) overlapped and both have returned, and
\* every set call made had returned before the delete began, k is not in
\* the memory cache and a get(k) returns absent.
DeleteSurvivesOverlappingGet ==
    \A g \in 1..NumGetCalls, d \in 1..NumDeleteCalls :
        (/\ get_calls[g].pc = "done"
         /\ delete_calls[d].pc = "done"
         /\ get_calls[g].key = delete_calls[d].key
         /\ GetOverlappedDelete(g, d)
         /\ NoSetSince(d)) =>
            /\ delete_calls[d].key \notin DOMAIN memory_cache
            /\ GetCascade(delete_calls[d].key, FALSE, FALSE).result = NotFound

\* C38: the memory cache and its deadlines have the same keys.
KeySetsAgree == DOMAIN memory_cache = DOMAIN memory_cache_ttl

\* C38 witness: a set, a get and a delete are all waiting for Redis, and the
\* memory cache holds the key and its deadline
ThreeCallsWaiting ==
    /\ \E s \in 1..NumSetCalls : set_calls[s].pc = "setex"
    /\ \E g \in 1..NumGetCalls : get_calls[g].pc = "replied"
    /\ \E d \in 1..NumDeleteCalls : delete_calls[d].pc = "redis_delete"
    /\ DOMAIN memory_cache = Keys
    /\ DOMAIN memory_cache_ttl = Keys

\* a get call has counted a memory miss and not yet a Redis hit or miss
GetsWaiting == Cardinality({g \in 1..NumGetCalls : get_calls[g].pc \in {"redis", "replied"}})

\* C39: redis_hits + redis_misses is at most memory_misses and disk_hits +
\* disk_misses is at most redis_misses; the first difference is the number
\* of get calls waiting for Redis, and both are equalities when no get call
\* is in progress.
CountersCascade ==
    /\ stats.redis_hits + stats.redis_misses <= stats.memory_misses
    /\ stats.disk_hits + stats.disk_misses <= stats.redis_misses
    /\ stats.memory_misses - (stats.redis_hits + stats.redis_misses) = GetsWaiting
    /\ GetsWaiting = 0 =>
          /\ stats.redis_hits + stats.redis_misses = stats.memory_misses
          /\ stats.disk_hits + stats.disk_misses = stats.redis_misses

\* C39 witness: a get call is waiting for Redis, with its memory miss counted
\* and nothing counted for Redis yet
MissCountedWhileWaiting ==
    /\ GetsWaiting = 1
    /\ stats.memory_misses = 1
    /\ stats.redis_hits + stats.redis_misses = 0
    /\ \E s \in 1..NumSetCalls : set_calls[s].pc = "setex"
====
